---------------------------- MODULE Spec2Model ----------------------------
(***************************************************************************)
(* A state-machine model of src/VibeCode.py: the cancellation token        *)
(* (InterruptibleOperation) and the traversal-and-transfer engine          *)
(* (SafeiPhonePhotoReader).  The single worker thread is a call stack of   *)
(* frames, one frame per active method; every action is one step of one    *)
(* method, split at each is_stopped() poll, each remote call and each      *)
(* local file effect, so that the asynchronous stop signal (Stop) can      *)
(* arrive between any two of them.                                         *)
(***************************************************************************)
EXTENDS Integers, Sequences, FiniteSets, TLC

VARIABLES
    mode,        \* which public method the caller drives
    stopped,     \* InterruptibleOperation.should_stop
    progress,    \* the last update_progress(current, total, message)
    session,     \* whether self.lockdown and self.afc have been set
    afc,         \* the remote service: which methods it has, how they behave
    fs,          \* the remote file system: path -> node
    localfs,     \* the local file system: path -> file
    localdirs,   \* the local directories created by mkdir
    stack,       \* the call stack of the worker, innermost frame last
    ret,         \* the value returned by the frame popped last
    scan_current,\* self.scan_progress["current"]
    calls,       \* the calls the caller has still to make
    input,       \* the arguments of the caller's first call
    hist         \* history: what was done, for stating the properties

vars == << mode, stopped, progress, session, afc, fs, localfs, localdirs, stack, ret,
           scan_current, calls, input, hist >>

----------------------------------------------------------------------------
(* Bounds of the model *)

\* how often the stop signal may be raised in one behaviour
MaxStops == 2

----------------------------------------------------------------------------
(* Python strings *)

UpperChars == "ABCDEFGHIJKLMNOPQRSTUVWXYZ"
LowerChars == "abcdefghijklmnopqrstuvwxyz"

CharAt(s, i) == SubSeq(s, i, i)

LowerChar(c) ==
    IF \E i \in 1..26 : CharAt(UpperChars, i) = c
    THEN CharAt(LowerChars, CHOOSE i \in 1..26 : CharAt(UpperChars, i) = c)
    ELSE c

RECURSIVE LowerFrom(_, _)
LowerFrom(s, i) ==
    IF i > Len(s) THEN "" ELSE LowerChar(CharAt(s, i)) \o LowerFrom(s, i + 1)

\* str.lower()
lower(s) == LowerFrom(s, 1)

\* str.endswith(suffix)
endswith(s, suf) ==
    /\ Len(suf) <= Len(s)
    /\ SubSeq(s, Len(s) - Len(suf) + 1, Len(s)) = suf

\* str.startswith(prefix)
startswith(s, pre) ==
    /\ Len(pre) <= Len(s)
    /\ SubSeq(s, 1, Len(pre)) = pre

\* substring in s
contains(s, sub) ==
    \E i \in 1..(Len(s) - Len(sub) + 1) : SubSeq(s, i, i + Len(sub) - 1) = sub

RECURSIVE rstrip_slash(_)
\* str.rstrip('/')
rstrip_slash(s) ==
    IF Len(s) > 0 /\ CharAt(s, Len(s)) = "/"
    THEN rstrip_slash(SubSeq(s, 1, Len(s) - 1))
    ELSE s

RECURSIVE lstrip_slash(_)
\* str.lstrip('/')
lstrip_slash(s) ==
    IF Len(s) > 0 /\ CharAt(s, 1) = "/"
    THEN lstrip_slash(SubSeq(s, 2, Len(s)))
    ELSE s

\* the index of the last occurrence of the character c in s, 0 when absent (str.rfind + 1)
rfind(s, c) ==
    IF \E i \in 1..Len(s) : CharAt(s, i) = c
    THEN CHOOSE i \in 1..Len(s) :
            /\ CharAt(s, i) = c
            /\ \A k \in (i + 1)..Len(s) : CharAt(s, k) # c
    ELSE 0

\* os.path.basename (posixpath): what follows the last '/'
basename(p) == SubSeq(p, rfind(p, "/") + 1, Len(p))

\* os.path.dirname (posixpath): what precedes the last '/', without trailing
\* slashes unless it is all slashes
dirname(p) ==
    LET head == SubSeq(p, 1, rfind(p, "/"))
    IN  IF rstrip_slash(head) = "" THEN head ELSE rstrip_slash(head)

\* os.path.splitext(p)[1]: from the last dot of the last component, unless
\* that dot is one of the component's leading dots
splitext_ext(p) ==
    LET sep == rfind(p, "/")
        dot == rfind(p, ".")
    IN  IF dot > sep /\ \E k \in (sep + 1)..(dot - 1) : CharAt(p, k) # "."
        THEN SubSeq(p, dot, Len(p))
        ELSE ""

\* os.path.join(a, b) for a relative b (posixpath)
path_join(a, b) ==
    IF a = "" \/ endswith(a, "/") THEN a \o b ELSE a \o "/" \o b

----------------------------------------------------------------------------
(* File classification *)

\* is_media_file: the picture formats of media_extensions
media_image_extensions ==
    { ".jpg", ".jpeg", ".png", ".gif", ".bmp", ".tiff", ".tif",
      ".heic", ".heif", ".webp", ".raw", ".dng", ".cr2", ".nef" }

\* is_media_file: the video formats of media_extensions
media_video_extensions ==
    { ".mov", ".mp4", ".avi", ".mkv", ".m4v", ".3gp", ".wmv",
      ".flv", ".webm", ".mpg", ".mpeg" }

media_extensions == media_image_extensions \cup media_video_extensions

is_media_file(filename) ==
    \E ext \in media_extensions : endswith(lower(filename), ext)

\* get_file_type: the two extension lists
image_types ==
    { ".jpg", ".jpeg", ".png", ".gif", ".bmp", ".tiff", ".heic", ".heif",
      ".webp", ".raw", ".dng" }

video_types == { ".mov", ".mp4", ".avi", ".mkv", ".m4v", ".3gp", ".wmv" }

get_file_type(file_path) ==
    LET ext == lower(splitext_ext(file_path))
    IN  IF ext \in image_types THEN "image"
        ELSE IF ext \in video_types THEN "video"
        ELSE "unknown"

----------------------------------------------------------------------------
(* Values, the call stack and the history *)

\* Python's None, and the tagged values a method returns
NoneV == [t |-> "none"]

\* an exception that leaves the method
RaisedV(e) == [t |-> "raised", e |-> e]
ListV(l) == [t |-> "list", v |-> l]
BoolV(b) == [t |-> "bool", v |-> b]

Top == stack[Len(stack)]
InProc(proc, pc) == stack # <<>> /\ Top.proc = proc /\ Top.pc = pc

\* the stack with its innermost frame replaced
WithTop(f) == [stack EXCEPT ![Len(stack)] = f]

Goto(pc) == stack' = [stack EXCEPT ![Len(stack)].pc = pc]
Call(caller, callee) == stack' = Append(WithTop(caller), callee)
Return(v) == stack' = SubSeq(stack, 1, Len(stack) - 1) /\ ret' = v

\* the history after one call of a method of the remote service
Remote(h) ==
    [h EXCEPT !.callsAfterStop = IF stopped THEN @ + 1 ELSE @,
              !.remoteCalls = @ + 1]

Hist0 ==
    [ nstops |-> 0,           \* stop signals raised so far
      remoteCalls |-> 0,      \* calls of the remote service made so far
      callsAfterStop |-> 0,   \* remote calls made since the first stop signal
      listedAfterStop |-> 0,  \* directories enumerated since the first stop signal
      itemsAfterStop |-> 0,   \* entries checked by the scan since the first stop signal
      startedAfterStop |-> 0, \* transfers begun since the first stop signal
      listed |-> <<>>,        \* the directories enumerated, in order
      tried |-> <<>>,         \* the enumeration primitives tried by the last safe_listdir
      listing |-> [t |-> "none"], \* what the last safe_listdir returned
      triedAfterStop |-> 0,   \* how many of them since the first stop signal
      attempts |-> <<>>,      \* the strategies tried by the last download_file_safe
      outcome |-> "",         \* the TransferOutcome of the last download_file_safe
      remoteReads |-> 0,      \* remote read/open/copy calls of the last download_file_safe
      preLocal |-> <<>>,      \* the local files when the last download_file_safe began
      wrote |-> FALSE,        \* whether the last download_file_safe wrote a local file
      entryStopped |-> FALSE, \* whether the stop flag was set when it was entered
      started |-> <<>>,       \* the records whose transfer the batch began, in order
      returned |-> <<>> ]     \* the return values of the caller's calls, in order

----------------------------------------------------------------------------
(* InterruptibleOperation *)

\* update_progress(current, total, message): status_message and the callback
update_progress(current, total, message) ==
    progress' = [current |-> current, total |-> total, message |-> message]

\* a stop() that flips the flag instead of setting it
Stop_Toggles ==
    /\ hist.nstops < MaxStops
    /\ stack # <<>> \/ calls # <<>>
    /\ stopped' = ~stopped
    /\ hist' = [hist EXCEPT !.nstops = @ + 1]
    /\ UNCHANGED << mode, progress, session, afc, fs, localfs, localdirs, stack, ret,
                    scan_current, calls, input >>

\* stop(), run by the signal handler at any point of the worker's execution
Stop ==
    /\ hist.nstops < MaxStops
    /\ stack # <<>> \/ calls # <<>>
    /\ stopped' = TRUE
    /\ hist' = [hist EXCEPT !.nstops = @ + 1]
    /\ UNCHANGED << mode, progress, session, afc, fs, localfs, localdirs, stack, ret,
                    scan_current, calls, input >>

----------------------------------------------------------------------------
(* The remote service *)

\* the remote paths that are links to another remote path
LinkPaths == {p \in DOMAIN fs : fs[p].kind = "link"}

\* path is the link l or lies below it
Below(path, l) ==
    /\ Len(path) >= Len(l)
    /\ SubSeq(path, 1, Len(l)) = l
    /\ Len(path) > Len(l) => SubSeq(path, Len(l) + 1, Len(l) + 1) = "/"

RECURSIVE Resolve(_)
\* the remote node a path names on the device: each link on the way is
\* replaced by its target (a link points to an ancestor, so this ends)
Resolve(path) ==
    IF \E l \in LinkPaths : Below(path, l)
    THEN LET l == CHOOSE l \in LinkPaths : Below(path, l)
         IN  Resolve(fs[l].target \o SubSeq(path, Len(l) + 1, Len(path)))
    ELSE path

\* afc.exists(path): "raise", TRUE or FALSE
afc_exists(path) ==
    LET node == Resolve(path)
    IN  IF node \notin DOMAIN fs THEN "false"
        ELSE IF fs[node].ex = "raise" THEN "raise"
        ELSE "true"

\* afc.isdir(path): "raise", "dir" or "file"
afc_isdir(path) ==
    LET node == Resolve(path)
    IN  IF node \notin DOMAIN fs THEN "file"
        ELSE IF fs[node].isd = "raise" THEN "raise"
        ELSE fs[node].kind

\* a result that is neither None nor something that can be iterated over
ScalarV == [t |-> "scalar"]

\* what an enumeration primitive leaves in items for a directory: NoneV when
\* it raises (the except clause leaves items None), returns None or, for ls,
\* returns an unknown shape; the raw listing; or, for listdir and
\* list_directory, which are not tested for their shape, whatever else
\* they return
Enumerate(prim, path) ==
    LET node == Resolve(path)
    IN  IF fs[node].lfail THEN NoneV
        ELSE IF afc[prim] \in {"list", "entries"} THEN ListV(fs[node].raw)
        ELSE IF afc[prim] = "scalar" THEN ScalarV
        ELSE NoneV

----------------------------------------------------------------------------
(* safe_listdir *)

StrEntry(s) == [shape |-> "str", v |-> s, name |-> <<>>, filename |-> <<>>]
DictEntry(name, filename) ==
    [shape |-> "dict", v |-> "", name |-> name, filename |-> filename]

RECURSIVE filtered_items(_)
\* the loop over items: drop '.', '..' and '', take a dict's name or filename
filtered_items(items) ==
    IF items = <<>> THEN <<>>
    ELSE LET item == Head(items)
             rest == filtered_items(Tail(items))
         IN  IF item.shape = "str"
             THEN IF item.v \in {".", "..", ""} THEN rest ELSE <<item.v>> \o rest
             ELSE IF item.name # <<>> THEN <<item.name[1]>> \o rest
             ELSE IF item.filename # <<>> THEN <<item.filename[1]>> \o rest
             ELSE rest

ListFrame(path) ==
    [proc |-> "safe_listdir", pc |-> "poll", path |-> path, items |-> NoneV]

\* if self.is_stopped(): return None
ListPoll ==
    /\ InProc("safe_listdir", "poll")
    /\ IF stopped THEN Return(NoneV) ELSE Goto("exists") /\ UNCHANGED ret
    /\ hist' = [hist EXCEPT !.tried = <<>>, !.triedAfterStop = 0, !.listing = NoneV]
    /\ UNCHANGED << mode, stopped, progress, session, afc, fs, localfs, localdirs,
                    scan_current, calls, input >>

\* an exists check whose exception leaves safe_listdir
ListExists_Propagates ==
    /\ InProc("safe_listdir", "exists")
    /\ IF afc_exists(Top.path) = "true"
       THEN Goto("isdir") /\ UNCHANGED ret
       ELSE IF afc_exists(Top.path) = "raise"
       THEN Return(RaisedV("AfcError"))
       ELSE Return(NoneV)
    /\ hist' = Remote(hist)
    /\ UNCHANGED << mode, stopped, progress, session, afc, fs, localfs, localdirs,
                    scan_current, calls, input >>

\* if not self.afc.exists(directory_path): return None
\* (an exception of the check is caught at the end of the method: return None)
ListExists ==
    /\ InProc("safe_listdir", "exists")
    /\ IF afc_exists(Top.path) = "true"
       THEN Goto("isdir") /\ UNCHANGED ret
       ELSE Return(NoneV)
    /\ hist' = Remote(hist)
    /\ UNCHANGED << mode, stopped, progress, session, afc, fs, localfs, localdirs,
                    scan_current, calls, input >>

\* if not self.afc.isdir(directory_path): return None
ListIsdir ==
    /\ InProc("safe_listdir", "isdir")
    /\ IF afc_isdir(Top.path) = "dir"
       THEN Goto("listdir") /\ UNCHANGED ret
       ELSE Return(NoneV)
    /\ hist' = Remote(hist)
    /\ UNCHANGED << mode, stopped, progress, session, afc, fs, localfs, localdirs,
                    scan_current, calls, input >>

\* an enumeration primitive that is tried whatever the earlier ones left
TryPrimitive_Always(prim, next) ==
    IF prim \in afc.has
    THEN /\ stack' = WithTop([Top EXCEPT !.items = Enumerate(prim, Top.path),
                                         !.pc = next])
         /\ hist' = [Remote(hist) EXCEPT
                        !.tried = Append(@, prim),
                        !.listed = IF hist.tried = <<>> THEN Append(@, Top.path) ELSE @,
                        !.triedAfterStop = IF stopped THEN @ + 1 ELSE @,
                        !.listedAfterStop =
                            IF stopped /\ hist.triedAfterStop = 0 THEN @ + 1 ELSE @]
    ELSE Goto(next) /\ UNCHANGED hist

\* one enumeration primitive: tried when items is still None and the
\* service has it
TryPrimitive(prim, next) ==
    IF Top.items = NoneV /\ prim \in afc.has
    THEN /\ stack' = WithTop([Top EXCEPT !.items = Enumerate(prim, Top.path),
                                         !.pc = next])
         /\ hist' = [Remote(hist) EXCEPT
                        !.tried = Append(@, prim),
                        !.listed = IF hist.tried = <<>> THEN Append(@, Top.path) ELSE @,
                        !.triedAfterStop = IF stopped THEN @ + 1 ELSE @,
                        !.listedAfterStop =
                            IF stopped /\ hist.triedAfterStop = 0 THEN @ + 1 ELSE @]
    ELSE Goto(next) /\ UNCHANGED hist

\* method 1: self.afc.listdir
ListListdir ==
    /\ InProc("safe_listdir", "listdir")
    /\ TryPrimitive("listdir", "ls")
    /\ UNCHANGED << mode, stopped, progress, session, afc, fs, localfs, localdirs, ret,
                    scan_current, calls, input >>

\* method 2: self.afc.ls
ListLs ==
    /\ InProc("safe_listdir", "ls")
    /\ TryPrimitive("ls", "list_directory")
    /\ UNCHANGED << mode, stopped, progress, session, afc, fs, localfs, localdirs, ret,
                    scan_current, calls, input >>

\* method 3: self.afc.list_directory
ListListDirectory ==
    /\ InProc("safe_listdir", "list_directory")
    /\ TryPrimitive("list_directory", "filter")
    /\ UNCHANGED << mode, stopped, progress, session, afc, fs, localfs, localdirs, ret,
                    scan_current, calls, input >>

\* if items is not None: return filtered_items; else return None
\* (a for loop over items that cannot be iterated over raises TypeError,
\* which the outer except Exception turns into return None)
ListFilter ==
    /\ InProc("safe_listdir", "filter")
    /\ LET result == IF Top.items = NoneV \/ Top.items = ScalarV
                     THEN NoneV
                     ELSE ListV(filtered_items(Top.items.v))
       IN  Return(result) /\ hist' = [hist EXCEPT !.listing = result]
    /\ UNCHANGED << mode, stopped, progress, session, afc, fs, localfs, localdirs,
                    scan_current, calls, input >>

safe_listdir ==
    \/ ListPoll \/ ListExists \/ ListIsdir
    \/ ListListdir \/ ListLs \/ ListListDirectory \/ ListFilter

----------------------------------------------------------------------------
(* scan_photos_safe *)

\* def scan_photos_safe(self, directory_path, max_depth=3)
default_max_depth == 3

\* max_subdirs = min(20, len(subdirs))
max_subdirs_cap == 20

\* progress is reported every 20th media file
scan_progress_every == 20

ScanFrame(directory_path, max_depth) ==
    [proc |-> "scan", pc |-> "entry", path |-> directory_path,
     max_depth |-> max_depth, items |-> <<>>, i |-> 1, files |-> <<>>,
     subdirs |-> <<>>, photos |-> <<>>, j |-> 1]

\* item_path = f"{directory_path.rstrip('/')}/{item}"
item_path(directory_path, item) == rstrip_slash(directory_path) \o "/" \o item

\* a scan that goes on when the depth is used up
ScanEntry_AnyDepth ==
    /\ InProc("scan", "entry")
    /\ IF stopped
       THEN Return(ListV(<<>>))
       ELSE Call([Top EXCEPT !.pc = "listed"], ListFrame(Top.path)) /\ UNCHANGED ret
    /\ UNCHANGED << mode, stopped, progress, session, afc, fs, localfs, localdirs,
                    scan_current, calls, input, hist >>

\* if max_depth <= 0 or self.is_stopped(): return []
\* items = self.safe_listdir(directory_path)
ScanEntry ==
    /\ InProc("scan", "entry")
    /\ IF Top.max_depth <= 0 \/ stopped
       THEN Return(ListV(<<>>))
       ELSE Call([Top EXCEPT !.pc = "listed"], ListFrame(Top.path)) /\ UNCHANGED ret
    /\ UNCHANGED << mode, stopped, progress, session, afc, fs, localfs, localdirs,
                    scan_current, calls, input, hist >>

\* if items is None: return photos
ScanListed ==
    /\ InProc("scan", "listed")
    /\ IF ret = NoneV
       THEN Return(ListV(Top.photos))
       ELSE /\ stack' = WithTop([Top EXCEPT !.items = ret.v, !.pc = "item"])
            /\ UNCHANGED ret
    /\ UNCHANGED << mode, stopped, progress, session, afc, fs, localfs, localdirs,
                    scan_current, calls, input, hist >>

\* the loop over the items without its is_stopped() check
ScanItemPoll_Unpolled ==
    /\ InProc("scan", "item")
    /\ IF Top.i > Len(Top.items)
       THEN Goto("extend")
       ELSE Goto("item_isdir")
    /\ UNCHANGED << mode, stopped, progress, session, afc, fs, localfs, localdirs, ret,
                    scan_current, calls, input, hist >>

\* for item in items: if self.is_stopped(): break
ScanItemPoll ==
    /\ InProc("scan", "item")
    /\ IF Top.i > Len(Top.items) \/ stopped
       THEN Goto("extend")
       ELSE Goto("item_isdir")
    /\ UNCHANGED << mode, stopped, progress, session, afc, fs, localfs, localdirs, ret,
                    scan_current, calls, input, hist >>

\* a loop body whose exception ends the loop
ScanItemIsdir_Aborts ==
    /\ InProc("scan", "item_isdir")
    /\ LET item == Top.items[Top.i]
           path == item_path(Top.path, item)
           kind == afc_isdir(path)
           media == kind = "file" /\ is_media_file(item)
       IN  /\ stack' = WithTop([Top EXCEPT
                  !.subdirs = IF kind = "dir" THEN Append(@, path) ELSE @,
                  !.files = IF media THEN Append(@, path) ELSE @,
                  !.i = @ + 1,
                  !.pc = IF kind = "raise" THEN "extend" ELSE "item"])
           /\ scan_current' = IF media THEN scan_current + 1 ELSE scan_current
           /\ IF media /\ (scan_current + 1) % scan_progress_every = 0
              THEN update_progress(scan_current + 1, 0, "scan_found")
              ELSE UNCHANGED progress
    /\ hist' = [Remote(hist) EXCEPT !.itemsAfterStop = IF stopped THEN @ + 1 ELSE @]
    /\ UNCHANGED << mode, stopped, session, afc, fs, localfs, localdirs, ret, calls, input >>

\* the body of the loop: self.afc.isdir(item_path), then subdirs.append or,
\* for a media file, files.append; an exception skips the item
ScanItemIsdir ==
    /\ InProc("scan", "item_isdir")
    /\ LET item == Top.items[Top.i]
           path == item_path(Top.path, item)
           kind == afc_isdir(path)
           media == kind = "file" /\ is_media_file(item)
       IN  /\ stack' = WithTop([Top EXCEPT
                  !.subdirs = IF kind = "dir" THEN Append(@, path) ELSE @,
                  !.files = IF media THEN Append(@, path) ELSE @,
                  !.i = @ + 1,
                  !.pc = "item"])
           /\ scan_current' = IF media THEN scan_current + 1 ELSE scan_current
           /\ IF media /\ (scan_current + 1) % scan_progress_every = 0
              THEN update_progress(scan_current + 1, 0, "scan_found")
              ELSE UNCHANGED progress
    /\ hist' = [Remote(hist) EXCEPT !.itemsAfterStop = IF stopped THEN @ + 1 ELSE @]
    /\ UNCHANGED << mode, stopped, session, afc, fs, localfs, localdirs, ret, calls, input >>

\* photos.extend(files); if subdirs and not self.is_stopped(): ...
ScanExtend ==
    /\ InProc("scan", "extend")
    /\ IF Top.subdirs # <<>> /\ ~stopped
       THEN /\ stack' = WithTop([Top EXCEPT !.photos = @ \o Top.files, !.pc = "sub"])
            /\ UNCHANGED ret
       ELSE Return(ListV(Top.photos \o Top.files))
    /\ UNCHANGED << mode, stopped, progress, session, afc, fs, localfs, localdirs,
                    scan_current, calls, input, hist >>

\* every subdirectory is descended into
ScanSubPoll_Uncapped ==
    /\ InProc("scan", "sub")
    /\ IF Top.j > Len(Top.subdirs) \/ stopped
       THEN Return(ListV(Top.photos))
       ELSE /\ Call([Top EXCEPT !.pc = "sub_ret"],
                    ScanFrame(Top.subdirs[Top.j], Top.max_depth - 1))
            /\ UNCHANGED ret
    /\ UNCHANGED << mode, stopped, progress, session, afc, fs, localfs, localdirs,
                    scan_current, calls, input, hist >>

\* the subdirectory is scanned to the same depth as its parent
ScanSubPoll_SameDepth ==
    /\ InProc("scan", "sub")
    /\ LET max_subdirs == IF Len(Top.subdirs) < max_subdirs_cap
                          THEN Len(Top.subdirs) ELSE max_subdirs_cap
       IN  IF Top.j > max_subdirs \/ stopped
           THEN Return(ListV(Top.photos))
           ELSE /\ Call([Top EXCEPT !.pc = "sub_ret"],
                        ScanFrame(Top.subdirs[Top.j], Top.max_depth))
                /\ UNCHANGED ret
    /\ UNCHANGED << mode, stopped, progress, session, afc, fs, localfs, localdirs,
                    scan_current, calls, input, hist >>

\* for subdir in subdirs[:max_subdirs]: if self.is_stopped(): break
\* sub_photos = self.scan_photos_safe(subdir, max_depth - 1)
ScanSubPoll ==
    /\ InProc("scan", "sub")
    /\ LET max_subdirs == IF Len(Top.subdirs) < max_subdirs_cap
                          THEN Len(Top.subdirs) ELSE max_subdirs_cap
       IN  IF Top.j > max_subdirs \/ stopped
           THEN Return(ListV(Top.photos))
           ELSE /\ Call([Top EXCEPT !.pc = "sub_ret"],
                        ScanFrame(Top.subdirs[Top.j], Top.max_depth - 1))
                /\ UNCHANGED ret
    /\ UNCHANGED << mode, stopped, progress, session, afc, fs, localfs, localdirs,
                    scan_current, calls, input, hist >>

\* the results of a subdirectory put before what was found so far
ScanSubRet_Prepended ==
    /\ InProc("scan", "sub_ret")
    /\ stack' = WithTop([Top EXCEPT !.photos = ret.v \o @, !.j = @ + 1, !.pc = "sub"])
    /\ UNCHANGED << mode, stopped, progress, session, afc, fs, localfs, localdirs, ret,
                    scan_current, calls, input, hist >>

\* after a stop signal, the results of a subdirectory replace what was found
\* so far
ScanSubRet_ReplacedOnStop ==
    /\ InProc("scan", "sub_ret")
    /\ stack' = WithTop([Top EXCEPT !.photos = IF stopped THEN ret.v ELSE @ \o ret.v,
                                    !.j = @ + 1, !.pc = "sub"])
    /\ UNCHANGED << mode, stopped, progress, session, afc, fs, localfs, localdirs, ret,
                    scan_current, calls, input, hist >>

\* photos.extend(sub_photos)
ScanSubRet ==
    /\ InProc("scan", "sub_ret")
    /\ stack' = WithTop([Top EXCEPT !.photos = @ \o ret.v, !.j = @ + 1, !.pc = "sub"])
    /\ UNCHANGED << mode, stopped, progress, session, afc, fs, localfs, localdirs, ret,
                    scan_current, calls, input, hist >>

scan_photos_safe ==
    \/ ScanEntry \/ ScanListed \/ ScanItemPoll \/ ScanItemIsdir
    \/ ScanExtend \/ ScanSubPoll \/ ScanSubRet

----------------------------------------------------------------------------
(* download_file_safe and its three strategies *)

\* chunk_size = 512 * 1024
chunk_size == 524288

\* progress is reported for files larger than 5 * 1024 * 1024
progress_threshold == 5242880

InfoV(path, size, modified) ==
    [t |-> "info", path |-> path, name |-> basename(path), size |-> size,
     modified |-> modified, created |-> modified, type |-> get_file_type(path)]

DownloadFrame(remote_path, local_path, file_info) ==
    [proc |-> "download", pc |-> "entry", remote_path |-> remote_path,
     local_path |-> local_path, file_info |-> file_info, success |-> FALSE,
     via |-> "", reads |-> 0, downloaded_size |-> 0]

\* file_info.get('size', 0) if file_info else 0
info_size(file_info) == IF file_info = NoneV THEN 0 ELSE file_info.size

\* the local file system with one file written or removed
LocalWrite(path, len) == (path :> [len |-> len, mtime |-> 0]) @@ localfs
LocalRemove(path) == [q \in DOMAIN localfs \ {path} |-> localfs[q]]

\* the directory of a local file and its parents (mkdir(parents=True))
RECURSIVE Parents(_)
Parents(dir) ==
    IF dir = "" \/ dir = dirname(dir) THEN {dir} \ {""}
    ELSE {dir} \cup Parents(dirname(dir))

\* how the remote file behaves: what its content is and which calls raise
RemoteSize(path) == IF path \in DOMAIN fs THEN fs[path].size ELSE 0
Raises(path, call) ==
    \/ path \notin DOMAIN fs
    \/ fs[path].kind # "file"
    \/ fs[path].fault[call] = "raise"

\* the history after a strategy has ended: its result replaces "running"
Ended(h, result) == [h EXCEPT !.attempts[Len(h.attempts)].r = result]
Began(h, strategy) ==
    [h EXCEPT !.attempts = Append(@, [s |-> strategy, r |-> "running"])]
ReadCall(h) == [Remote(h) EXCEPT !.remoteReads = @ + 1]

\* the local directory is created before the stop flag is looked at
DlEntry_MkdirFirst ==
    /\ InProc("download", "entry")
    /\ localdirs' = localdirs \cup Parents(dirname(Top.local_path))
    /\ IF stopped
       THEN Return(BoolV(FALSE))
       ELSE Goto("mkdir") /\ UNCHANGED ret
    /\ hist' = [hist EXCEPT !.attempts = <<>>, !.remoteReads = 0,
                            !.outcome = IF stopped THEN "cancelled" ELSE "",
                            !.preLocal = localfs, !.wrote = FALSE,
                            !.entryStopped = stopped]
    /\ UNCHANGED << mode, stopped, progress, session, afc, fs, localfs,
                    scan_current, calls, input >>

\* if self.is_stopped(): return False
DlEntry ==
    /\ InProc("download", "entry")
    /\ IF stopped
       THEN Return(BoolV(FALSE))
       ELSE Goto("mkdir") /\ UNCHANGED ret
    /\ hist' = [hist EXCEPT !.attempts = <<>>, !.remoteReads = 0,
                            !.outcome = IF stopped THEN "cancelled" ELSE "",
                            !.preLocal = localfs, !.wrote = FALSE,
                            !.entryStopped = stopped]
    /\ UNCHANGED << mode, stopped, progress, session, afc, fs, localfs, localdirs,
                    scan_current, calls, input >>

\* no check for a local file of the expected size
DlMkdir_Unchecked ==
    /\ InProc("download", "mkdir")
    /\ localdirs' = localdirs \cup Parents(dirname(Top.local_path))
    /\ Goto("stream_open")
    /\ UNCHANGED << mode, stopped, progress, session, afc, fs, localfs, ret, scan_current,
                    calls, input, hist >>

\* a local file of any size makes the call skip the transfer
DlMkdir_AnySize ==
    /\ InProc("download", "mkdir")
    /\ localdirs' = localdirs \cup Parents(dirname(Top.local_path))
    /\ IF Top.local_path \in DOMAIN localfs
       THEN Return(BoolV(TRUE)) /\ hist' = [hist EXCEPT !.outcome = "skipped"]
       ELSE Goto("stream_open") /\ UNCHANGED << ret, hist >>
    /\ UNCHANGED << mode, stopped, progress, session, afc, fs, localfs, scan_current,
                    calls, input >>

\* Path(local_dir).mkdir(parents=True, exist_ok=True), then the check for a
\* local file of the expected size
DlMkdir ==
    /\ InProc("download", "mkdir")
    /\ localdirs' = localdirs \cup Parents(dirname(Top.local_path))
    /\ IF /\ Top.local_path \in DOMAIN localfs
          /\ Top.file_info # NoneV
          /\ localfs[Top.local_path].len = Top.file_info.size
          /\ Top.file_info.size > 0
       THEN Return(BoolV(TRUE)) /\ hist' = [hist EXCEPT !.outcome = "skipped"]
       ELSE Goto("stream_open") /\ UNCHANGED << ret, hist >>
    /\ UNCHANGED << mode, stopped, progress, session, afc, fs, localfs, scan_current,
                    calls, input >>

\* a service without afc.open is not asked for afc.file_open
safe_open_file_OpenOnly(path) ==
    IF "open" \in afc.has
    THEN IF Raises(path, "open") THEN "" ELSE "stream"
    ELSE IF "get_file_contents" \in afc.has
    THEN IF Raises(path, "gfc") THEN "" ELSE "bytesio"
    ELSE ""

\* safe_open_file: afc.open, else afc.file_open, else BytesIO of
\* afc.get_file_contents, else AttributeError; "" when the call raises
safe_open_file(path) ==
    IF "open" \in afc.has
    THEN IF Raises(path, "open") THEN "" ELSE "stream"
    ELSE IF "file_open" \in afc.has
    THEN IF Raises(path, "open") THEN "" ELSE "stream"
    ELSE IF "get_file_contents" \in afc.has
    THEN IF Raises(path, "gfc") THEN "" ELSE "bytesio"
    ELSE ""

\* _download_with_stream: with self.safe_open_file(remote_path, 'rb')
DlStreamOpen ==
    /\ InProc("download", "stream_open")
    /\ LET opened == safe_open_file(Top.remote_path)
           called == afc.has \cap {"open", "file_open", "get_file_contents"} # {}
           h0 == [hist EXCEPT !.startedAfterStop = IF stopped THEN @ + 1 ELSE @]
           h1 == IF called THEN ReadCall(Began(h0, "stream")) ELSE Began(h0, "stream")
       IN  IF opened = ""
           THEN Goto("bulk") /\ hist' = Ended(h1, "raised")
           ELSE /\ stack' = WithTop([Top EXCEPT !.via = opened, !.pc = "stream_create"])
                /\ hist' = h1
    /\ UNCHANGED << mode, stopped, progress, session, afc, fs, localfs, localdirs, ret,
                    scan_current, calls, input >>

\* with open(local_path, 'wb') as local_file
DlStreamCreate ==
    /\ InProc("download", "stream_create")
    /\ localfs' = LocalWrite(Top.local_path, 0)
    /\ Goto("stream_poll")
    /\ hist' = [hist EXCEPT !.wrote = TRUE]
    /\ UNCHANGED << mode, stopped, progress, session, afc, fs, localdirs, ret,
                    scan_current, calls, input >>

\* while not self.is_stopped()
DlStreamPoll ==
    /\ InProc("download", "stream_poll")
    /\ IF stopped THEN Goto("stream_check") ELSE Goto("stream_read")
    /\ UNCHANGED << mode, stopped, progress, session, afc, fs, localfs, localdirs, ret,
                    scan_current, calls, input, hist >>

\* chunk = remote_file.read(chunk_size); if not chunk: break;
\* local_file.write(chunk); downloaded_size += len(chunk)
DlStreamRead ==
    /\ InProc("download", "stream_read")
    /\ LET left == RemoteSize(Top.remote_path) - Top.downloaded_size
           n == IF left < chunk_size THEN left ELSE chunk_size
           total_size == info_size(Top.file_info)
           raised == /\ Top.via = "stream"
                     /\ fs[Top.remote_path].fault.read_at = Top.reads + 1
       IN  /\ IF raised
              THEN /\ Goto("bulk")
                   /\ hist' = Ended(ReadCall(hist), "raised")
                   /\ UNCHANGED << localfs, progress >>
              ELSE /\ hist' = IF Top.via = "stream" THEN ReadCall(hist) ELSE hist
                   /\ IF n = 0
                      THEN Goto("stream_check") /\ UNCHANGED << localfs, progress >>
                      ELSE /\ stack' = WithTop([Top EXCEPT
                                  !.reads = @ + 1,
                                  !.downloaded_size = @ + n,
                                  !.pc = "stream_poll"])
                           /\ localfs' = LocalWrite(Top.local_path,
                                                    Top.downloaded_size + n)
                           /\ IF total_size > progress_threshold
                              THEN update_progress(Top.downloaded_size + n,
                                                   total_size, "download_chunk")
                              ELSE UNCHANGED progress
    /\ UNCHANGED << mode, stopped, session, afc, fs, localdirs, ret, scan_current,
                    calls, input >>

\* an interrupted copy that returns False and leaves the file
DlStreamCheck_Kept ==
    /\ InProc("download", "stream_check")
    /\ stack' = WithTop([Top EXCEPT !.success = ~stopped, !.pc = "post"])
    /\ hist' = Ended(hist, IF stopped THEN "false" ELSE "true")
    /\ UNCHANGED << mode, stopped, progress, session, afc, fs, localfs, localdirs, ret,
                    scan_current, calls, input >>

\* an interrupted copy treated as a failed strategy: the next one is tried
DlStreamCheck_FallsThrough ==
    /\ InProc("download", "stream_check")
    /\ IF stopped
       THEN /\ localfs' = LocalRemove(Top.local_path)
            /\ Goto("bulk")
            /\ hist' = Ended(hist, "false")
       ELSE /\ stack' = WithTop([Top EXCEPT !.success = TRUE, !.pc = "post"])
            /\ hist' = Ended(hist, "true")
            /\ UNCHANGED localfs
    /\ UNCHANGED << mode, stopped, progress, session, afc, fs, localdirs, ret,
                    scan_current, calls, input >>

\* if self.is_stopped(): remove local_path if it exists; return False
\* return True
DlStreamCheck ==
    /\ InProc("download", "stream_check")
    /\ IF stopped
       THEN /\ localfs' = LocalRemove(Top.local_path)
            /\ stack' = WithTop([Top EXCEPT !.success = FALSE, !.pc = "post"])
            /\ hist' = Ended(hist, "false")
       ELSE /\ stack' = WithTop([Top EXCEPT !.success = TRUE, !.pc = "post"])
            /\ hist' = Ended(hist, "true")
            /\ UNCHANGED localfs
    /\ UNCHANGED << mode, stopped, progress, session, afc, fs, localdirs, ret,
                    scan_current, calls, input >>

\* _download_with_bulk_read: data = self.afc.get_file_contents(remote_path),
\* or AttributeError when the service has no such method
DlBulk ==
    /\ InProc("download", "bulk")
    /\ IF "get_file_contents" \in afc.has
       THEN IF Raises(Top.remote_path, "gfc")
            THEN Goto("pull") /\ hist' = Ended(ReadCall(Began(hist, "bulk")), "raised")
            ELSE Goto("bulk_poll") /\ hist' = ReadCall(Began(hist, "bulk"))
       ELSE Goto("pull") /\ hist' = Ended(Began(hist, "bulk"), "raised")
    /\ UNCHANGED << mode, stopped, progress, session, afc, fs, localfs, localdirs, ret,
                    scan_current, calls, input >>

\* if self.is_stopped(): return False
\* with open(local_path, 'wb') as local_file: local_file.write(data)
DlBulkPoll ==
    /\ InProc("download", "bulk_poll")
    /\ IF stopped
       THEN /\ stack' = WithTop([Top EXCEPT !.success = FALSE, !.pc = "post"])
            /\ hist' = Ended(hist, "false")
            /\ UNCHANGED localfs
       ELSE /\ stack' = WithTop([Top EXCEPT !.success = TRUE, !.pc = "post"])
            /\ localfs' = LocalWrite(Top.local_path, RemoteSize(Top.remote_path))
            /\ hist' = [Ended(hist, "true") EXCEPT !.wrote = TRUE]
    /\ UNCHANGED << mode, stopped, progress, session, afc, fs, localdirs, ret,
                    scan_current, calls, input >>

\* _download_with_pull: self.afc.pull_file, else self.afc.pull, else
\* AttributeError; when it raises too, every strategy has failed
DlPull ==
    /\ InProc("download", "pull")
    /\ IF afc.has \cap {"pull_file", "pull"} # {}
       THEN IF Raises(Top.remote_path, "pull")
            THEN /\ Return(BoolV(FALSE))
                 /\ hist' = [Ended(ReadCall(Began(hist, "pull")), "raised")
                                EXCEPT !.outcome = "exhausted"]
                 /\ UNCHANGED localfs
            ELSE /\ Goto("pull_poll") /\ UNCHANGED ret
                 /\ localfs' = LocalWrite(Top.local_path, RemoteSize(Top.remote_path))
                 /\ hist' = [ReadCall(Began(hist, "pull")) EXCEPT !.wrote = TRUE]
       ELSE /\ Return(BoolV(FALSE))
            /\ hist' = [Ended(Began(hist, "pull"), "raised")
                           EXCEPT !.outcome = "exhausted"]
            /\ UNCHANGED localfs
    /\ UNCHANGED << mode, stopped, progress, session, afc, fs, localdirs, scan_current,
                    calls, input >>

\* return not self.is_stopped()
DlPullPoll ==
    /\ InProc("download", "pull_poll")
    /\ stack' = WithTop([Top EXCEPT !.success = ~stopped, !.pc = "post"])
    /\ hist' = Ended(hist, IF stopped THEN "false" ELSE "true")
    /\ UNCHANGED << mode, stopped, progress, session, afc, fs, localfs, localdirs, ret,
                    scan_current, calls, input >>

\* a size other than the expected one fails the transfer and removes the file
DlPost_FailsOnMismatch ==
    /\ InProc("download", "post")
    /\ IF Top.success /\ ~stopped
       THEN IF Top.local_path \in DOMAIN localfs
            THEN IF /\ Top.file_info # NoneV
                    /\ Top.file_info.size > 0
                    /\ localfs[Top.local_path].len # Top.file_info.size
                 THEN /\ Return(BoolV(FALSE))
                      /\ hist' = [hist EXCEPT !.outcome = "mismatch"]
                      /\ localfs' = [q \in DOMAIN localfs \ {Top.local_path} |->
                                        localfs[q]]
                 ELSE /\ Return(BoolV(TRUE))
                      /\ hist' = [hist EXCEPT !.outcome = "success"]
                      /\ IF Top.file_info # NoneV /\ Top.file_info.modified # 0
                         THEN localfs' = [localfs EXCEPT ![Top.local_path].mtime =
                                             Top.file_info.modified]
                         ELSE UNCHANGED localfs
            ELSE /\ Return(BoolV(FALSE))
                 /\ hist' = [hist EXCEPT !.outcome = "missing"]
                 /\ UNCHANGED localfs
       ELSE /\ Return(BoolV(Top.success))
            /\ hist' = [hist EXCEPT !.outcome =
                            IF Top.success THEN "success" ELSE "cancelled"]
            /\ UNCHANGED localfs
    /\ UNCHANGED << mode, stopped, progress, session, afc, fs, localdirs, scan_current,
                    calls, input >>

\* if success and not self.is_stopped(): verify the size (a mismatch is only
\* logged), set the file time, return True (False if the file is missing)
\* return success
DlPost ==
    /\ InProc("download", "post")
    /\ IF Top.success /\ ~stopped
       THEN IF Top.local_path \in DOMAIN localfs
            THEN /\ Return(BoolV(TRUE))
                 /\ hist' = [hist EXCEPT !.outcome = "success"]
                 /\ IF Top.file_info # NoneV /\ Top.file_info.modified # 0
                    THEN localfs' = [localfs EXCEPT ![Top.local_path].mtime =
                                        Top.file_info.modified]
                    ELSE UNCHANGED localfs
            ELSE /\ Return(BoolV(FALSE))
                 /\ hist' = [hist EXCEPT !.outcome = "missing"]
                 /\ UNCHANGED localfs
       ELSE /\ Return(BoolV(Top.success))
            /\ hist' = [hist EXCEPT !.outcome =
                            IF Top.success THEN "success" ELSE "cancelled"]
            /\ UNCHANGED localfs
    /\ UNCHANGED << mode, stopped, progress, session, afc, fs, localdirs, scan_current,
                    calls, input >>

download_file_safe ==
    \/ DlEntry \/ DlMkdir
    \/ DlStreamOpen \/ DlStreamCreate \/ DlStreamPoll \/ DlStreamRead \/ DlStreamCheck
    \/ DlBulk \/ DlBulkPoll
    \/ DlPull \/ DlPullPoll
    \/ DlPost

----------------------------------------------------------------------------
(* download_photos_batch_safe *)

PairV(downloaded, failed) ==
    [t |-> "pair", downloaded |-> downloaded, failed |-> failed]

BatchFrame(photos_info, output_directory) ==
    [proc |-> "batch", pc |-> "entry", photos_info |-> photos_info,
     output_directory |-> output_directory, i |-> 1,
     downloaded_count |-> 0, failed_count |-> 0]

\* local_path = os.path.join(output_directory, photo_info['path'].lstrip('/'))
batch_local_path(output_directory, path) ==
    path_join(output_directory, lstrip_slash(path))

\* if not photos_info: return 0, 0
\* self.update_progress(0, total_photos, ...)
BatchEntry ==
    /\ InProc("batch", "entry")
    /\ IF Top.photos_info = <<>>
       THEN Return(PairV(0, 0)) /\ UNCHANGED progress
       ELSE /\ Goto("poll") /\ UNCHANGED ret
            /\ update_progress(0, Len(Top.photos_info), "prepare")
    /\ UNCHANGED << mode, stopped, session, afc, fs, localfs, localdirs, scan_current,
                    calls, input, hist >>

\* a cancelled batch counts the record it did not begin as failed
BatchPoll_CountsCancelled ==
    /\ InProc("batch", "poll")
    /\ IF Top.i > Len(Top.photos_info) \/ stopped
       THEN /\ Return(PairV(Top.downloaded_count,
                            IF Top.i > Len(Top.photos_info)
                            THEN Top.failed_count ELSE Top.failed_count + 1))
            /\ UNCHANGED << progress, hist >>
       ELSE LET photo_info == Top.photos_info[Top.i]
            IN  /\ update_progress(Top.i - 1, Len(Top.photos_info), "downloading")
                /\ Call([Top EXCEPT !.pc = "counted"],
                        DownloadFrame(photo_info.path,
                                      batch_local_path(Top.output_directory,
                                                       photo_info.path),
                                      photo_info))
                /\ hist' = [hist EXCEPT !.started = Append(@, Top.i)]
                /\ UNCHANGED ret
    /\ UNCHANGED << mode, stopped, session, afc, fs, localfs, localdirs, scan_current,
                    calls, input >>

\* for i, photo_info in enumerate(photos_info): if self.is_stopped(): break
\* self.update_progress(i, total_photos, ...); self.download_file_safe(...)
BatchPoll ==
    /\ InProc("batch", "poll")
    /\ IF Top.i > Len(Top.photos_info) \/ stopped
       THEN /\ Return(PairV(Top.downloaded_count, Top.failed_count))
            /\ UNCHANGED << progress, hist >>
       ELSE LET photo_info == Top.photos_info[Top.i]
            IN  /\ update_progress(Top.i - 1, Len(Top.photos_info), "downloading")
                /\ Call([Top EXCEPT !.pc = "counted"],
                        DownloadFrame(photo_info.path,
                                      batch_local_path(Top.output_directory,
                                                       photo_info.path),
                                      photo_info))
                /\ hist' = [hist EXCEPT !.started = Append(@, Top.i)]
                /\ UNCHANGED ret
    /\ UNCHANGED << mode, stopped, session, afc, fs, localfs, localdirs, scan_current,
                    calls, input >>

\* a failed transfer ends the batch
BatchCount_StopsAtFailure ==
    /\ InProc("batch", "counted")
    /\ IF ret.v
       THEN /\ stack' = WithTop([Top EXCEPT !.downloaded_count = @ + 1,
                                            !.i = @ + 1, !.pc = "poll"])
            /\ UNCHANGED ret
       ELSE Return(PairV(Top.downloaded_count, Top.failed_count + 1))
    /\ UNCHANGED << mode, stopped, progress, session, afc, fs, localfs, localdirs,
                    scan_current, calls, input, hist >>

\* a failed record is attempted a second time
BatchCount_Retries ==
    /\ InProc("batch", "counted")
    /\ LET attempts == {k \in 1..Len(hist.started) : hist.started[k] = Top.i}
           again == ~ret.v /\ Cardinality(attempts) < 2
       IN  stack' = WithTop([Top EXCEPT
                !.downloaded_count = IF ret.v THEN @ + 1 ELSE @,
                !.failed_count = IF ret.v \/ again THEN @ ELSE @ + 1,
                !.i = IF again THEN @ ELSE @ + 1,
                !.pc = "poll"])
    /\ UNCHANGED << mode, stopped, progress, session, afc, fs, localfs, localdirs, ret,
                    scan_current, calls, input, hist >>

\* if self.download_file_safe(...): downloaded_count += 1
\* else: failed_count += 1
BatchCount ==
    /\ InProc("batch", "counted")
    /\ stack' = WithTop([Top EXCEPT
            !.downloaded_count = IF ret.v THEN @ + 1 ELSE @,
            !.failed_count = IF ret.v THEN @ ELSE @ + 1,
            !.i = @ + 1,
            !.pc = "poll"])
    /\ UNCHANGED << mode, stopped, progress, session, afc, fs, localfs, localdirs, ret,
                    scan_current, calls, input, hist >>

download_photos_batch_safe == BatchEntry \/ BatchPoll \/ BatchCount

----------------------------------------------------------------------------
(* connect_device, setup_afc_service *)

ConnectFrame == [proc |-> "connect", pc |-> "poll"]

\* if self.is_stopped(): return False
\* self.update_progress(0, 100, ...)
ConnPoll ==
    /\ InProc("connect", "poll")
    /\ IF stopped
       THEN Return(BoolV(FALSE)) /\ UNCHANGED progress
       ELSE Goto("usbmux") /\ update_progress(0, 100, "searching") /\ UNCHANGED ret
    /\ UNCHANGED << mode, stopped, session, afc, fs, localfs, localdirs,
                    scan_current, calls, input, hist >>

\* self.lockdown = create_using_usbmux(); an exception is reported and
\* answered with False
ConnUsbmux ==
    /\ InProc("connect", "usbmux")
    /\ IF afc.connect = "raise"
       THEN /\ update_progress(0, 100, "connect_failed")
            /\ Return(BoolV(FALSE))
            /\ UNCHANGED session
       ELSE /\ session' = [session EXCEPT !.lockdown = TRUE]
            /\ Goto("info")
            /\ UNCHANGED << progress, ret >>
    /\ UNCHANGED << mode, stopped, afc, fs, localfs, localdirs, scan_current,
                    calls, input, hist >>

\* if self.is_stopped(): return False
\* self.device_info = {...}; self.update_progress(100, 100, ...); return True
ConnInfo ==
    /\ InProc("connect", "info")
    /\ IF stopped
       THEN Return(BoolV(FALSE)) /\ UNCHANGED progress
       ELSE Return(BoolV(TRUE)) /\ update_progress(100, 100, "connected")
    /\ UNCHANGED << mode, stopped, session, afc, fs, localfs, localdirs,
                    scan_current, calls, input, hist >>

connect_device == ConnPoll \/ ConnUsbmux \/ ConnInfo

SetupFrame == [proc |-> "setup", pc |-> "poll"]

\* if self.is_stopped(): return False
\* self.update_progress(0, 100, ...)
SetupPoll ==
    /\ InProc("setup", "poll")
    /\ IF stopped
       THEN Return(BoolV(FALSE)) /\ UNCHANGED progress
       ELSE Goto("service") /\ update_progress(0, 100, "afc_init") /\ UNCHANGED ret
    /\ UNCHANGED << mode, stopped, session, afc, fs, localfs, localdirs,
                    scan_current, calls, input, hist >>

\* self.afc = AfcService(self.lockdown); test_items = self.safe_listdir('/')
SetupService ==
    /\ InProc("setup", "service")
    /\ IF afc.service = "raise"
       THEN /\ update_progress(0, 100, "afc_failed")
            /\ Return(BoolV(FALSE))
            /\ UNCHANGED session
       ELSE /\ session' = [session EXCEPT !.afc = TRUE]
            /\ Call([Top EXCEPT !.pc = "tested"], ListFrame("/"))
            /\ UNCHANGED << progress, ret >>
    /\ UNCHANGED << mode, stopped, afc, fs, localfs, localdirs, scan_current,
                    calls, input, hist >>

\* if test_items is not None: update_progress(100, 100, ...); return True
\* else: return False
SetupTested ==
    /\ InProc("setup", "tested")
    /\ IF ret # NoneV
       THEN Return(BoolV(TRUE)) /\ update_progress(100, 100, "afc_ready")
       ELSE Return(BoolV(FALSE)) /\ UNCHANGED progress
    /\ UNCHANGED << mode, stopped, session, afc, fs, localfs, localdirs,
                    scan_current, calls, input, hist >>

setup_afc_service == SetupPoll \/ SetupService \/ SetupTested

----------------------------------------------------------------------------
(* get_photo_directories_safe *)

potential_paths ==
    << "/DCIM", "/Media/DCIM",
       "/var/mobile/Media/DCIM", "/var/mobile/Media/PhotoData",
       "/var/mobile/Media/Photos",
       "/private/var/mobile/Media/DCIM", "/private/var/mobile/Media/PhotoData",
       "/PhotoData", "/Photos", "/Media/Photos", "/Media/PhotoData",
       "/var/mobile/Applications", "/Applications" >>

\* only the first 10 items are looked at
photo_related_prefix == 10

\* a directory with more than 50 items is taken whatever it holds
many_items == 50

\* the test applied to one of the first items of a candidate
photo_related_item(item) ==
    LET item_lower == lower(item)
    IN  \/ \E suf \in {".jpg", ".jpeg", ".png", ".heic", ".mov", ".mp4"} :
                endswith(item_lower, suf)
        \/ \E pre \in {"img_", "dsc_", "100apple", "101apple", "102apple"} :
                startswith(item_lower, pre)
        \/ contains(item_lower, "apple")

\* every item of the candidate is looked at
is_photo_directory_AnyItem(items) ==
    \/ \E k \in 1..Len(items) : photo_related_item(items[k])
    \/ Len(items) > many_items

\* photo_related or len(items) > 50
is_photo_directory(items) ==
    \/ \E k \in 1..Len(items) :
            k <= photo_related_prefix /\ photo_related_item(items[k])
    \/ Len(items) > many_items

DiscoverFrame == [proc |-> "discover", pc |-> "entry", i |-> 1, available_paths |-> <<>>]

\* if self.is_stopped(): return []
\* self.update_progress(0, total_paths, ...)
DiscEntry ==
    /\ InProc("discover", "entry")
    /\ IF stopped
       THEN Return(ListV(<<>>)) /\ UNCHANGED progress
       ELSE /\ Goto("poll") /\ UNCHANGED ret
            /\ update_progress(0, Len(potential_paths), "searching_directories")
    /\ UNCHANGED << mode, stopped, session, afc, fs, localfs, localdirs,
                    scan_current, calls, input, hist >>

\* for i, path in enumerate(potential_paths): if self.is_stopped(): break
\* self.update_progress(i, total_paths, ...); items = self.safe_listdir(path)
\* after the loop: self.update_progress(total_paths, total_paths, ...)
DiscPoll ==
    /\ InProc("discover", "poll")
    /\ IF Top.i > Len(potential_paths) \/ stopped
       THEN /\ update_progress(Len(potential_paths), Len(potential_paths), "found")
            /\ Return(ListV(Top.available_paths))
       ELSE /\ update_progress(Top.i - 1, Len(potential_paths), "checking")
            /\ Call([Top EXCEPT !.pc = "listed"], ListFrame(potential_paths[Top.i]))
            /\ UNCHANGED ret
    /\ UNCHANGED << mode, stopped, session, afc, fs, localfs, localdirs,
                    scan_current, calls, input, hist >>

\* if items is not None and len(items) > 0: ... available_paths.append(path)
DiscListed ==
    /\ InProc("discover", "listed")
    /\ LET items == ret
           take == items # NoneV /\ Len(items.v) > 0 /\ is_photo_directory(items.v)
       IN  stack' = WithTop([Top EXCEPT
                !.available_paths = IF take THEN Append(@, potential_paths[Top.i]) ELSE @,
                !.i = @ + 1,
                !.pc = "poll"])
    /\ UNCHANGED << mode, stopped, progress, session, afc, fs, localfs, localdirs,
                    ret, scan_current, calls, input, hist >>

get_photo_directories_safe == DiscEntry \/ DiscPoll \/ DiscListed

----------------------------------------------------------------------------
(* get_file_info_safe *)

FileInfoFrame(file_path) == [proc |-> "info", pc |-> "poll", file_path |-> file_path]

\* if self.is_stopped(): return None
FileInfoPoll ==
    /\ InProc("info", "poll")
    /\ IF stopped THEN Return(NoneV) ELSE Goto("stat") /\ UNCHANGED ret
    /\ UNCHANGED << mode, stopped, progress, session, afc, fs, localfs, localdirs,
                    scan_current, calls, input, hist >>

\* stat_info = self.afc.stat(file_path); the record, or None when it raises
FileInfoStat ==
    /\ InProc("info", "stat")
    /\ LET file_path == Top.file_path
       IN  IF file_path \notin DOMAIN fs \/ ~fs[file_path].stat.ok
           THEN Return(NoneV)
           ELSE Return([InfoV(file_path, fs[file_path].stat.st_size,
                              fs[file_path].stat.st_mtime)
                            EXCEPT !.created = fs[file_path].stat.st_birthtime])
    /\ hist' = Remote(hist)
    /\ UNCHANGED << mode, stopped, progress, session, afc, fs, localfs, localdirs,
                    scan_current, calls, input >>

get_file_info_safe == FileInfoPoll \/ FileInfoStat

----------------------------------------------------------------------------
(* analyze_photos_safe *)

\* 'total_size_mb': total_size / (1024 * 1024)
bytes_per_mb == 1048576

\* progress is reported every 50th file
analyze_progress_every == 50

\* self.update_progress(i * 50, len(directories) * 50, ...)
dir_progress_weight == 50

RECURSIVE sum_sizes(_)
\* sum(p['size'] for p in all_photos)
sum_sizes(all_photos) ==
    IF all_photos = <<>> THEN 0
    ELSE Head(all_photos).size + sum_sizes(Tail(all_photos))

\* len([p for p in all_photos if p['type'] == kind])
count_of_type(all_photos, kind) ==
    Cardinality({k \in 1..Len(all_photos) : all_photos[k].type = kind})

\* the total counts the images and the videos
total_files_ByKind(all_photos) ==
    count_of_type(all_photos, "image") + count_of_type(all_photos, "video")

\* 'total_files': len(all_photos)
total_files(all_photos) == Len(all_photos)

\* total_size = sum(p['size'] for p in all_photos)
total_size(all_photos) == sum_sizes(all_photos)

\* the analysis dict; total_size_mb is the quotient total_size / 1048576,
\* kept as numerator and denominator
AnalysisV(all_photos) ==
    [t |-> "analysis",
     total_files |-> total_files(all_photos),
     image_count |-> count_of_type(all_photos, "image"),
     video_count |-> count_of_type(all_photos, "video"),
     total_size_mb |-> [num |-> total_size(all_photos), den |-> bytes_per_mb],
     photos_info |-> all_photos]

AnalyzeFrame ==
    [proc |-> "analyze", pc |-> "entry", directories |-> <<>>, i |-> 1,
     photos |-> <<>>, j |-> 1, all_photos |-> <<>>]

\* self.reset(); self.connect_device()
AnEntry ==
    /\ InProc("analyze", "entry")
    /\ stopped' = FALSE
    /\ Call([Top EXCEPT !.pc = "connected"], ConnectFrame)
    /\ UNCHANGED << mode, progress, session, afc, fs, localfs, localdirs, ret,
                    scan_current, calls, input, hist >>

\* if not self.connect_device(): return None
\* if self.is_stopped(): return None
\* self.setup_afc_service()
AnConnected ==
    /\ InProc("analyze", "connected")
    /\ IF ~ret.v \/ stopped
       THEN Return(NoneV)
       ELSE Call([Top EXCEPT !.pc = "setup_done"], SetupFrame) /\ UNCHANGED ret
    /\ UNCHANGED << mode, stopped, progress, session, afc, fs, localfs, localdirs,
                    scan_current, calls, input, hist >>

\* if not self.setup_afc_service(): return None
\* if self.is_stopped(): return None
\* self.update_progress(0, 100, ...); self.get_photo_directories_safe()
AnSetupDone ==
    /\ InProc("analyze", "setup_done")
    /\ IF ~ret.v \/ stopped
       THEN Return(NoneV) /\ UNCHANGED progress
       ELSE /\ update_progress(0, 100, "analyze_start")
            /\ Call([Top EXCEPT !.pc = "discovered"], DiscoverFrame)
            /\ UNCHANGED ret
    /\ UNCHANGED << mode, stopped, session, afc, fs, localfs, localdirs,
                    scan_current, calls, input, hist >>

\* if self.is_stopped(): return None
\* if not directories: return None
\* all_photos = []; self.scan_progress = {"current": 0, ...}
AnDiscovered ==
    /\ InProc("analyze", "discovered")
    /\ IF stopped \/ ret.v = <<>>
       THEN Return(NoneV) /\ UNCHANGED scan_current
       ELSE /\ stack' = WithTop([Top EXCEPT !.directories = ret.v, !.pc = "dir_poll"])
            /\ scan_current' = 0
            /\ UNCHANGED ret
    /\ UNCHANGED << mode, stopped, progress, session, afc, fs, localfs, localdirs,
                    calls, input, hist >>

\* for i, directory in enumerate(directories): if self.is_stopped(): break
\* self.update_progress(i * 50, len(directories) * 50, ...)
\* photos = self.scan_photos_safe(directory)
AnDirPoll ==
    /\ InProc("analyze", "dir_poll")
    /\ IF Top.i > Len(Top.directories) \/ stopped
       THEN Goto("final") /\ UNCHANGED progress
       ELSE /\ update_progress((Top.i - 1) * dir_progress_weight,
                               Len(Top.directories) * dir_progress_weight,
                               "scanning_directory")
            /\ Call([Top EXCEPT !.pc = "scanned"],
                    ScanFrame(Top.directories[Top.i], default_max_depth))
    /\ UNCHANGED << mode, stopped, session, afc, fs, localfs, localdirs, ret,
                    scan_current, calls, input, hist >>

\* if self.is_stopped(): break
\* if photos: for j, photo in enumerate(photos): ...
AnScanned ==
    /\ InProc("analyze", "scanned")
    /\ IF stopped
       THEN Goto("final")
       ELSE stack' = WithTop([Top EXCEPT !.photos = ret.v, !.j = 1, !.pc = "photo_poll"])
    /\ UNCHANGED << mode, stopped, progress, session, afc, fs, localfs, localdirs,
                    ret, scan_current, calls, input, hist >>

\* for j, photo in enumerate(photos): if self.is_stopped(): break
\* photo_info = self.get_file_info_safe(photo)
AnPhotoPoll ==
    /\ InProc("analyze", "photo_poll")
    /\ IF Top.j > Len(Top.photos) \/ stopped
       THEN stack' = WithTop([Top EXCEPT !.i = @ + 1, !.pc = "dir_poll"])
       ELSE Call([Top EXCEPT !.pc = "info"], FileInfoFrame(Top.photos[Top.j]))
    /\ UNCHANGED << mode, stopped, progress, session, afc, fs, localfs, localdirs,
                    ret, scan_current, calls, input, hist >>

\* if photo_info: all_photos.append(photo_info)
\* if (j + 1) % 50 == 0: self.update_progress(j + 1, len(photos), ...)
AnInfo ==
    /\ InProc("analyze", "info")
    /\ stack' = WithTop([Top EXCEPT
            !.all_photos = IF ret # NoneV THEN Append(@, ret) ELSE @,
            !.j = @ + 1,
            !.pc = "photo_poll"])
    /\ IF Top.j % analyze_progress_every = 0
       THEN update_progress(Top.j, Len(Top.photos), "processed")
       ELSE UNCHANGED progress
    /\ UNCHANGED << mode, stopped, session, afc, fs, localfs, localdirs, ret,
                    scan_current, calls, input, hist >>

\* if self.is_stopped(): return None
\* if all_photos: analysis = {...}; self.update_progress(100, 100, ...);
\* return analysis
\* return None
AnFinal ==
    /\ InProc("analyze", "final")
    /\ IF ~stopped /\ Top.all_photos # <<>>
       THEN Return(AnalysisV(Top.all_photos)) /\ update_progress(100, 100, "analyzed")
       ELSE Return(NoneV) /\ UNCHANGED progress
    /\ UNCHANGED << mode, stopped, session, afc, fs, localfs, localdirs,
                    scan_current, calls, input, hist >>

analyze_photos_safe ==
    \/ AnEntry \/ AnConnected \/ AnSetupDone \/ AnDiscovered \/ AnDirPoll
    \/ AnScanned \/ AnPhotoPoll \/ AnInfo \/ AnFinal

----------------------------------------------------------------------------
(* interactive_download_safe *)

\* the most menu choices one session is followed for
MaxRounds == 2

\* what the user may type at the menu; "eof" is KeyboardInterrupt or EOFError
Choices == {"1", "2", "3", "4", "5", "other", "eof"}

InteractiveFrame ==
    [proc |-> "interactive", pc |-> "start", analysis |-> NoneV,
     photos_to_download |-> <<>>, rounds |-> 0]

\* [p for p in analysis['photos_info'] if p['type'] == kind]
photos_of_type(photos_info, kind) ==
    LET OfKind(p) == p.type = kind IN SelectSeq(photos_info, OfKind)

\* self.set_progress_callback(progress_callback)
\* analysis = self.analyze_photos_safe()
IntStart ==
    /\ InProc("interactive", "start")
    /\ Call([Top EXCEPT !.pc = "analysed"], AnalyzeFrame)
    /\ UNCHANGED << mode, stopped, progress, session, afc, fs, localfs, localdirs,
                    ret, scan_current, calls, input, hist >>

\* if not analysis: ... return
IntAnalysed ==
    /\ InProc("interactive", "analysed")
    /\ IF ret = NoneV
       THEN Return(NoneV)
       ELSE /\ stack' = WithTop([Top EXCEPT !.analysis = ret, !.pc = "menu"])
            /\ UNCHANGED ret
    /\ UNCHANGED << mode, stopped, progress, session, afc, fs, localfs, localdirs,
                    scan_current, calls, input, hist >>

\* while True: if self.is_stopped(): break
\* choice = input(...): '1', '2', '3' select the records to download, '4'
\* analyses again, '5' and an interrupted prompt leave, anything else
\* asks again; no records to download asks again
IntMenu ==
    /\ InProc("interactive", "menu")
    /\ IF stopped
       THEN Return(NoneV)
       ELSE \E choice \in Choices :
            /\ choice \notin {"5", "eof"} => Top.rounds < MaxRounds
            /\ IF choice \in {"5", "eof"}
               THEN Return(NoneV)
               ELSE IF choice = "other"
               THEN stack' = WithTop([Top EXCEPT !.rounds = @ + 1]) /\ UNCHANGED ret
               ELSE IF choice = "4"
               THEN /\ Call([Top EXCEPT !.rounds = @ + 1, !.pc = "reanalysed"],
                            AnalyzeFrame)
                    /\ UNCHANGED ret
               ELSE IF Top.analysis = NoneV
               THEN Return(RaisedV("TypeError"))
               ELSE LET all == Top.analysis.photos_info
                        photos_to_download ==
                            IF choice = "1" THEN all
                            ELSE IF choice = "2" THEN photos_of_type(all, "image")
                            ELSE photos_of_type(all, "video")
                    IN  /\ stack' = WithTop([Top EXCEPT
                                !.rounds = @ + 1,
                                !.photos_to_download = photos_to_download,
                                !.pc = IF photos_to_download = <<>>
                                       THEN "menu" ELSE "output_dir"])
                        /\ UNCHANGED ret
    /\ UNCHANGED << mode, stopped, progress, session, afc, fs, localfs, localdirs,
                    scan_current, calls, input, hist >>

\* analysis = self.analyze_photos_safe(); if not analysis: print(...)
\* continue
IntReanalysed ==
    /\ InProc("interactive", "reanalysed")
    /\ stack' = WithTop([Top EXCEPT !.analysis = ret, !.pc = "menu"])
    /\ UNCHANGED << mode, stopped, progress, session, afc, fs, localfs, localdirs,
                    ret, scan_current, calls, input, hist >>

\* output_dir = input(...), an interrupted prompt leaves
\* self.reset()
\* downloaded, failed = self.download_photos_batch_safe(photos_to_download, output_dir)
IntOutputDir ==
    /\ InProc("interactive", "output_dir")
    /\ \E answered \in BOOLEAN :
        IF answered
        THEN /\ stopped' = FALSE
             /\ Call([Top EXCEPT !.pc = "downloaded"],
                     BatchFrame(Top.photos_to_download, "out"))
             /\ UNCHANGED ret
        ELSE Return(NoneV) /\ UNCHANGED stopped
    /\ UNCHANGED << mode, progress, session, afc, fs, localfs, localdirs,
                    scan_current, calls, input, hist >>

\* continue_choice = input(...); if continue_choice != 'y': break
\* (an interrupted prompt leaves too); self.reset()
IntDownloaded ==
    /\ InProc("interactive", "downloaded")
    /\ \E continue_choice \in {"y", "n"} :
        IF continue_choice = "y"
        THEN /\ stopped' = FALSE
             /\ Goto("menu")
             /\ UNCHANGED ret
        ELSE Return(NoneV) /\ UNCHANGED stopped
    /\ UNCHANGED << mode, progress, session, afc, fs, localfs, localdirs,
                    scan_current, calls, input, hist >>

\* the device is taken off the cable while the menu waits for the user:
\* from then on create_using_usbmux() raises
Unplug ==
    /\ InProc("interactive", "menu")
    /\ afc.connect = "ok"
    /\ afc' = [afc EXCEPT !.connect = "raise"]
    /\ UNCHANGED << mode, stopped, progress, session, fs, localfs, localdirs, stack,
                    ret, scan_current, calls, input, hist >>

interactive_download_safe ==
    \/ IntStart \/ IntAnalysed \/ IntMenu \/ IntReanalysed \/ IntOutputDir
    \/ IntDownloaded

----------------------------------------------------------------------------
(* The caller *)

\* the caller makes its next call once the previous one has returned
CallerCall ==
    /\ stack = <<>>
    /\ calls # <<>>
    /\ stack' = <<Head(calls)>>
    /\ calls' = Tail(calls)
    /\ hist' = [hist EXCEPT !.returned = Append(@, ret)]
    /\ UNCHANGED << mode, stopped, progress, session, afc, fs, localfs, localdirs, ret,
                    scan_current, input >>

\* reset(), which the caller may call between two operations
Reset ==
    /\ stack = <<>>
    /\ calls # <<>>
    /\ stopped
    /\ stopped' = FALSE
    /\ UNCHANGED << mode, progress, session, afc, fs, localfs, localdirs, stack, ret,
                    scan_current, calls, input, hist >>

----------------------------------------------------------------------------
(* The environments the model is checked in *)

\* bounds on the generated inputs
MaxRawLen == 2
MaxItems == 2

NoFault == [open |-> "ok", read_at |-> 0, gfc |-> "ok", pull |-> "ok"]

StatOk(size, mtime) ==
    [ok |-> TRUE, st_size |-> size, st_mtime |-> mtime, st_birthtime |-> mtime]

Dir(raw) ==
    [kind |-> "dir", ex |-> "ok", isd |-> "ok", lfail |-> FALSE, raw |-> raw,
     size |-> 0, stat |-> StatOk(0, 0), fault |-> NoFault, target |-> ""]

\* a remote name that stands for the directory at target
Link(target) == [Dir(<<>>) EXCEPT !.kind = "link", !.target = target]

File(size) ==
    [kind |-> "file", ex |-> "ok", isd |-> "ok", lfail |-> FALSE, raw |-> <<>>,
     size |-> size, stat |-> StatOk(size, 7), fault |-> NoFault, target |-> ""]

RECURSIVE SeqsUpTo(_, _)
\* the sequences over S of length at most n
SeqsUpTo(S, n) ==
    IF n = 0 THEN {<<>>}
    ELSE LET shorter == SeqsUpTo(S, n - 1)
         IN  shorter \cup {Append(q, x) : q \in shorter, x \in S}

Strs(names) == [k \in 1..Len(names) |-> StrEntry(names[k])]

\* a service with every method, each behaving
AfcStd ==
    [has |-> {"open", "file_open", "get_file_contents", "pull_file", "pull",
              "listdir", "ls", "list_directory"},
     listdir |-> "list", ls |-> "list", list_directory |-> "list",
     connect |-> "ok", service |-> "ok"]

\* every combination of the three enumeration primitives: absent, or present
\* and raising, returning None, returning an unknown shape or returning a
\* listing (ls: a list, or a dict with 'entries')
ListAfcs ==
    { [has |-> h, listdir |-> a, ls |-> b, list_directory |-> c,
       connect |-> "ok", service |-> "ok"] :
        h \in SUBSET {"listdir", "ls", "list_directory"},
        a \in {"raise", "none", "scalar", "list"},
        b \in {"raise", "other", "list", "entries"},
        c \in {"raise", "none", "scalar", "list"} }

\* ... an absent primitive has no behaviour
CanonicalAfc(a) ==
    /\ "listdir" \notin a.has => a.listdir = "raise"
    /\ "ls" \notin a.has => a.ls = "raise"
    /\ "list_directory" \notin a.has => a.list_directory = "raise"

RawEntries ==
    { StrEntry("."), StrEntry(".."), StrEntry(""), StrEntry("IMG_0001.JPG"),
      DictEntry(<<"a.png">>, <<>>), DictEntry(<<>>, <<"b.mov">>),
      DictEntry(<<"n">>, <<"f">>), DictEntry(<<>>, <<>>),
      DictEntry(<<".">>, <<>>), DictEntry(<<>>, <<"..">>) }

MixedRaw == << StrEntry("."), StrEntry("x.jpg"), DictEntry(<<"y.mov">>, <<>>),
               StrEntry(".."), StrEntry("") >>

\* the environments of a direct call of safe_listdir("/DCIM")
ListEnvs ==
    {[afc |-> a, fs |-> "/DCIM" :> Dir(MixedRaw)] : a \in {x \in ListAfcs : CanonicalAfc(x)}}
    \cup {[afc |-> AfcStd, fs |-> "/DCIM" :> Dir(raw)] : raw \in SeqsUpTo(RawEntries, MaxRawLen)}
    \cup {[afc |-> AfcStd, fs |-> "/DCIM" :> n] :
            n \in { [Dir(MixedRaw) EXCEPT !.ex = "raise"],
                    [Dir(MixedRaw) EXCEPT !.isd = "raise"],
                    [Dir(MixedRaw) EXCEPT !.lfail = TRUE],
                    File(3) }}
    \cup {[afc |-> AfcStd, fs |-> "/other" :> Dir(MixedRaw)]}

\* the tree below /DCIM that the generated root listings refer to
SubTree ==
    "/DCIM/a.JPG" :> File(3) @@
    "/DCIM/notes.txt" :> File(1) @@
    "/DCIM/bad.png" :> [File(2) EXCEPT !.isd = "raise"] @@
    "/DCIM/sub" :> Dir(Strs(<<"c.mov", ".", "inner", "readme">>)) @@
    "/DCIM/sub/c.mov" :> File(5) @@
    "/DCIM/sub/readme" :> File(1) @@
    "/DCIM/sub/inner" :> Dir(Strs(<<"d.cr2", "deep">>)) @@
    "/DCIM/sub/inner/d.cr2" :> File(4) @@
    "/DCIM/sub/inner/deep" :> Dir(Strs(<<"e.gif">>)) @@
    "/DCIM/sub/inner/deep/e.gif" :> File(2)

ScanNames == {"a.JPG", "notes.txt", "sub", "bad.png"}

\* the tree of the scenario: /DCIM/100APPLE with two media files and a note
ScenarioTree ==
    "/DCIM" :> Dir(Strs(<<"100APPLE">>)) @@
    "/DCIM/100APPLE" :> Dir(Strs(<<"IMG_0001.JPG", "IMG_0002.MOV", "notes.txt">>)) @@
    "/DCIM/100APPLE/IMG_0001.JPG" :> File(3) @@
    "/DCIM/100APPLE/IMG_0002.MOV" :> File(9) @@
    "/DCIM/100APPLE/notes.txt" :> File(1)

\* a tree with a directory that cannot be listed, a directory named like a
\* media file, an entry that has vanished and a directory whose exists check
\* raises
FaultyTree ==
    "/DCIM" :> Dir(Strs(<<"locked", "x.heic", "album.jpg", "gone.mp4", "ok",
                          "denied">>)) @@
    "/DCIM/locked" :> [Dir(Strs(<<"l.jpg">>)) EXCEPT !.lfail = TRUE] @@
    "/DCIM/x.heic" :> File(2) @@
    "/DCIM/album.jpg" :> Dir(Strs(<<"in.webp", "in.txt">>)) @@
    "/DCIM/album.jpg/in.webp" :> File(2) @@
    "/DCIM/album.jpg/in.txt" :> File(2) @@
    "/DCIM/ok" :> Dir(Strs(<<"z.MPEG">>)) @@
    "/DCIM/ok/z.MPEG" :> File(6) @@
    "/DCIM/denied" :> [Dir(Strs(<<"d.jpg">>)) EXCEPT !.ex = "raise"] @@
    "/DCIM/denied/d.jpg" :> File(2)

\* 22 subdirectories of /DCIM, each with one picture
WideNames ==
    << "d01", "d02", "d03", "d04", "d05", "d06", "d07", "d08", "d09", "d10", "d11",
       "d12", "d13", "d14", "d15", "d16", "d17", "d18", "d19", "d20", "d21", "d22" >>

\* /DCIM lists a picture, a note between the subdirectories, and the 22
\* subdirectories
WideTree ==
    LET dirs == {item_path("/DCIM", WideNames[k]) : k \in 1..Len(WideNames)}
        pics == {item_path(d, "p.jpg") : d \in dirs}
    IN  "/DCIM" :> Dir(Strs(<<"a.JPG">> \o SubSeq(WideNames, 1, 3) \o <<"notes.txt">>
                            \o SubSeq(WideNames, 4, Len(WideNames)))) @@
        "/DCIM/a.JPG" :> File(3) @@
        "/DCIM/notes.txt" :> File(1) @@
        [d \in dirs |-> Dir(Strs(<<"p.jpg">>))] @@
        [f \in pics |-> File(2)]

\* a tree with cycles: /DCIM lists itself as "self", and /DCIM/sub lists its
\* parent as "up"
CyclicTree ==
    "/DCIM" :> Dir(Strs(<<"IMG_0001.JPG", "self", "sub">>)) @@
    "/DCIM/IMG_0001.JPG" :> File(3) @@
    "/DCIM/self" :> Link("/DCIM") @@
    "/DCIM/sub" :> Dir(Strs(<<"up", "b.png">>)) @@
    "/DCIM/sub/b.png" :> File(2) @@
    "/DCIM/sub/up" :> Link("/DCIM")

ScanTrees ==
    {("/DCIM" :> Dir(Strs(names))) @@ SubTree : names \in SeqsUpTo(ScanNames, MaxItems)}
    \cup {ScenarioTree, FaultyTree, WideTree, CyclicTree}

\* the read methods a service may have
ReadSets ==
    { {}, {"open"}, {"file_open"}, {"get_file_contents"}, {"pull_file"}, {"pull"},
      {"get_file_contents", "pull"}, {"open", "get_file_contents", "pull_file"} }

AfcWith(has) == [AfcStd EXCEPT !.has = has \cup {"listdir"}]

\* how the calls on one remote file may fail
Faults ==
    [open : {"ok", "raise"}, read_at : 0..2, gfc : {"ok", "raise"},
     pull : {"ok", "raise"}]

AllRaise == [open |-> "raise", read_at |-> 0, gfc |-> "raise", pull |-> "raise"]
MidRaise == [open |-> "ok", read_at |-> 2, gfc |-> "ok", pull |-> "ok"]

\* a remote file of more than one chunk
BigSize == chunk_size + 5

\* the environments of two calls of download_file_safe for one remote file:
\* every failure of every read method for a two-chunk file not yet there, and
\* every state of the local copy and of file_info when nothing or all fails
TransferEnvs ==
    { [afc |-> AfcWith(has),
       fs |-> "/DCIM/a.JPG" :> [File(BigSize) EXCEPT !.fault = f],
       file_info |-> InfoV("/DCIM/a.JPG", BigSize, 7),
       localfs |-> <<>>] : has \in ReadSets, f \in Faults }
    \cup
    { [afc |-> AfcStd,
       fs |-> "/DCIM/a.JPG" :> [File(size) EXCEPT !.fault = f],
       file_info |-> info,
       localfs |-> loc] :
        size \in {0, 3, BigSize},
        f \in {NoFault, AllRaise},
        info \in {NoneV, InfoV("/DCIM/a.JPG", 0, 7), InfoV("/DCIM/a.JPG", 3, 0),
                  InfoV("/DCIM/a.JPG", BigSize, 7)},
        loc \in {<<>>, "out/DCIM/a.JPG" :> [len |-> 3, mtime |-> 1],
                 "out/DCIM/a.JPG" :> [len |-> 1, mtime |-> 1]} }

\* the remote files of a batch: one that transfers, one on which every call
\* raises, one whose second read raises
BatchTree ==
    "/DCIM/a.JPG" :> File(3) @@
    "/DCIM/b.MOV" :> [File(3) EXCEPT !.fault = AllRaise] @@
    "/DCIM/c.png" :> [File(BigSize) EXCEPT !.fault = MidRaise]

BatchRecords ==
    { InfoV("/DCIM/a.JPG", 3, 7), InfoV("/DCIM/b.MOV", 3, 7),
      InfoV("/DCIM/c.png", BigSize, 7) }

\* the longest list of records handed to a batch
MaxBatch == 3

\* the files of /DCIM/100APPLE: an image, a video, a raw image, a note, a
\* hidden file named like an extension and a picture whose stat raises
AnalyzeFiles ==
    "/DCIM/100APPLE/IMG_0001.JPG" :> File(3) @@
    "/DCIM/100APPLE/IMG_0002.MOV" :> File(9) @@
    "/DCIM/100APPLE/d.cr2" :> File(4) @@
    "/DCIM/100APPLE/notes.txt" :> File(1) @@
    "/DCIM/100APPLE/.jpg" :> File(2) @@
    "/DCIM/100APPLE/e.png" :> [File(5) EXCEPT !.stat.ok = FALSE]

AnalyzeNames == {"IMG_0001.JPG", "IMG_0002.MOV", "d.cr2", "notes.txt"}

\* a listing of n entries that all carry the same name
Repeated(name, n) == [k \in 1..n |-> StrEntry(name)]

\* the scenario of the discovery: a candidate with 60 entries of no media
\* name and a candidate with IMG_0001.JPG, x and y
DiscoverScenario ==
    "/PhotoData" :> Dir(Repeated("x", many_items + 10)) @@
    "/DCIM" :> Dir(Strs(<<"IMG_0001.JPG", "x", "y">>))

\* candidates at the edges of both rules: 50 and 51 entries, a media name
\* as 10th and as 11th entry, a vendor name, a picture format that is no
\* signature, 52 raw entries of which two are '.' and '..', an empty
\* listing, a file, a directory that cannot be listed
DiscoverEdges ==
    "/Photos" :> Dir(Repeated("x", many_items)) @@
    "/Media/DCIM" :> Dir(Repeated("x", many_items + 1)) @@
    "/Applications" :>
        Dir(Repeated("x", photo_related_prefix) \o Strs(<<"IMG_0002.JPG">>)) @@
    "/var/mobile/Applications" :>
        Dir(Repeated("x", photo_related_prefix - 1) \o Strs(<<"dsc_7", "z">>)) @@
    "/Media/Photos" :> Dir(Strs(<<"x", "a.gif">>)) @@
    "/var/mobile/Media/DCIM" :> Dir(Strs(<<"x", "MyApple">>)) @@
    "/var/mobile/Media/Photos" :>
        Dir(Strs(<<".", "..">>) \o Repeated("x", many_items)) @@
    "/DCIM" :> Dir(<<>>) @@
    "/PhotoData" :> File(3) @@
    "/Media/PhotoData" :> [Dir(Strs(<<"IMG_0003.JPG">>)) EXCEPT !.lfail = TRUE] @@
    "/private/var/mobile/Media/DCIM" :>
        [Dir(Strs(<<"IMG_0004.JPG">>)) EXCEPT !.ex = "raise"]

DiscoverNames == {"x", "DSC_1", "a.MP4", "b.webm", "."}

\* the remote trees of a direct call of get_photo_directories_safe
DiscoverTrees ==
    { "/Photos" :> Dir(Strs(<<"IMG_0001.JPG">>)) @@ "/DCIM" :> Dir(Strs(names)) :
        names \in SeqsUpTo(DiscoverNames, MaxItems) }
    \cup { DiscoverScenario, DiscoverEdges }

\* a device whose /DCIM/100APPLE holds the listed names
AnalyzeTree(names) ==
    "/" :> Dir(Strs(<<"DCIM">>)) @@
    "/DCIM" :> Dir(Strs(<<"100APPLE">>)) @@
    "/DCIM/100APPLE" :> Dir(Strs(names)) @@
    AnalyzeFiles

\* the environments of analyze_photos_safe: every short listing of
\* /DCIM/100APPLE, the scenario's listing, files that cannot be classified or
\* stat'ed, two photo directories, no photo directory, a root that cannot be
\* listed, and a connection or a service that cannot be set up
AnalyzeEnvs ==
    { [afc |-> AfcStd, fs |-> AnalyzeTree(names)] :
        names \in SeqsUpTo(AnalyzeNames, MaxItems) }
    \cup
    { [afc |-> AfcStd, fs |-> t] :
        t \in { AnalyzeTree(<<"IMG_0001.JPG", "IMG_0002.MOV", "notes.txt">>),
                AnalyzeTree(<<"e.png", ".jpg", "IMG_0002.MOV">>),
                AnalyzeTree(<<"e.png">>),
                "/Media/DCIM" :> Dir(Strs(<<"IMG_0009.heic">>)) @@
                    "/Media/DCIM/IMG_0009.heic" :> File(6) @@
                    AnalyzeTree(<<"IMG_0001.JPG">>),
                "/" :> Dir(Strs(<<"Books">>)) @@ "/Books" :> Dir(Strs(<<"a.epub">>)),
                [AnalyzeTree(<<"IMG_0001.JPG">>) EXCEPT !["/"].lfail = TRUE] } }
    \cup
    { [afc |-> a, fs |-> AnalyzeTree(<<"IMG_0001.JPG">>)] :
        a \in { [AfcStd EXCEPT !.connect = "raise"],
                [AfcStd EXCEPT !.service = "raise"] } }

----------------------------------------------------------------------------
(* The initial states: one per environment and call *)

InitRest ==
    /\ stopped = FALSE
    /\ progress = [current |-> 0, total |-> 0, message |-> ""]
    /\ localdirs = {}
    /\ ret = NoneV
    /\ scan_current = 0
    /\ hist = Hist0

InitCommon ==
    /\ session = [lockdown |-> TRUE, afc |-> TRUE]
    /\ localfs = <<>>
    /\ calls = <<>>
    /\ InitRest

\* the caller calls safe_listdir("/DCIM")
InitList ==
    /\ mode = "list"
    /\ \E e \in ListEnvs : afc = e.afc /\ fs = e.fs
    /\ input = [path |-> "/DCIM"]
    /\ stack = <<ListFrame(input.path)>>
    /\ InitCommon

\* the caller calls scan_photos_safe("/DCIM", max_depth)
InitScan ==
    /\ mode = "scan"
    /\ afc = AfcStd
    /\ fs \in ScanTrees
    /\ input \in [path : {"/DCIM"}, max_depth : -1..default_max_depth]
    /\ stack = <<ScanFrame(input.path, input.max_depth)>>
    /\ InitCommon

\* the caller calls download_file_safe twice for the same file
InitTransfer ==
    /\ mode = "transfer"
    /\ \E e \in TransferEnvs :
            /\ afc = e.afc /\ fs = e.fs /\ localfs = e.localfs
            /\ input = [remote_path |-> "/DCIM/a.JPG",
                        local_path |-> "out/DCIM/a.JPG",
                        file_info |-> e.file_info]
    /\ stack = <<DownloadFrame(input.remote_path, input.local_path, input.file_info)>>
    /\ calls = stack
    /\ session = [lockdown |-> TRUE, afc |-> TRUE]
    /\ InitRest

\* the caller calls download_photos_batch_safe(photos_info, "out")
InitBatch ==
    /\ mode = "batch"
    /\ afc \in {AfcStd, AfcWith({"open"})}
    /\ fs = BatchTree
    /\ localfs = <<>>
    /\ input \in [photos_info : SeqsUpTo(BatchRecords, MaxBatch),
                   output_directory : {"out"}]
    /\ stack = <<BatchFrame(input.photos_info, input.output_directory)>>
    /\ calls = <<>>
    /\ session = [lockdown |-> TRUE, afc |-> TRUE]
    /\ InitRest

\* the environments of a session: a device with a picture and a video, and
\* a device that cannot be connected to
InteractiveEnvs ==
    { [afc |-> AfcStd, fs |-> AnalyzeTree(<<"IMG_0001.JPG", "IMG_0002.MOV">>)],
      [afc |-> [AfcStd EXCEPT !.connect = "raise"],
       fs |-> AnalyzeTree(<<"IMG_0001.JPG">>)] }

\* the caller calls analyze_photos_safe() on a reader not yet connected
InitAnalyze ==
    /\ mode = "analyze"
    /\ \E e \in AnalyzeEnvs : afc = e.afc /\ fs = e.fs
    /\ session = [lockdown |-> FALSE, afc |-> FALSE]
    /\ localfs = <<>>
    /\ input = [operation |-> "analyze_photos_safe"]
    /\ stack = <<AnalyzeFrame>>
    /\ calls = <<>>
    /\ InitRest

\* the caller calls get_photo_directories_safe()
InitDiscover ==
    /\ mode = "discover"
    /\ afc = AfcStd
    /\ fs \in DiscoverTrees
    /\ input = [operation |-> "get_photo_directories_safe"]
    /\ stack = <<DiscoverFrame>>
    /\ InitCommon

\* the caller calls interactive_download_safe() on a reader not yet connected
InitInteractive ==
    /\ mode = "interactive"
    /\ \E e \in InteractiveEnvs : afc = e.afc /\ fs = e.fs
    /\ session = [lockdown |-> FALSE, afc |-> FALSE]
    /\ localfs = <<>>
    /\ input = [operation |-> "interactive_download_safe"]
    /\ stack = <<InteractiveFrame>>
    /\ calls = <<>>
    /\ InitRest

Init ==
    \/ InitList \/ InitScan \/ InitTransfer \/ InitBatch \/ InitAnalyze
    \/ InitDiscover \/ InitInteractive

Next ==
    \/ Stop
    \/ CallerCall
    \/ Reset
    \/ safe_listdir
    \/ scan_photos_safe
    \/ download_file_safe
    \/ download_photos_batch_safe
    \/ connect_device
    \/ setup_afc_service
    \/ get_photo_directories_safe
    \/ get_file_info_safe
    \/ analyze_photos_safe
    \/ interactive_download_safe
    \/ Unplug

Spec == Init /\ [][Next]_vars

\* one call of scan_photos_safe alone, whose steps are taken as long as
\* one is possible (the thread that runs the scan is never starved)
ScanNext == Stop \/ safe_listdir \/ scan_photos_safe

ScanSpec ==
    InitScan /\ [][ScanNext]_vars /\ WF_vars(safe_listdir \/ scan_photos_safe)

----------------------------------------------------------------------------
(* What the remote tree holds, stated without the scanner's steps *)

PseudoEntries == {".", "..", ""}

\* whether the accessor can list a directory at all
Listable(path) ==
    /\ afc_exists(path) = "true"
    /\ afc_isdir(path) = "dir"
    /\ ~fs[Resolve(path)].lfail
    /\ \E prim \in afc.has \cap {"listdir", "ls", "list_directory"} :
            afc[prim] \in {"list", "entries"}

\* the names a listable directory holds, in listing order
EntryNames(path) ==
    LET raw == fs[Resolve(path)].raw
        names == [k \in 1..Len(raw) |->
                    LET e == raw[k]
                    IN  IF e.shape = "str" THEN e.v
                        ELSE IF e.name # <<>> THEN e.name[1]
                        ELSE IF e.filename # <<>> THEN e.filename[1]
                        ELSE ""]
        Real(n) == n \notin PseudoEntries
    IN  SelectSeq(names, Real)

\* the children of a directory that are media files, and those that are
\* directories, as paths in listing order
MediaFilesOf(path) ==
    LET children == [k \in 1..Len(EntryNames(path)) |->
                        item_path(path, EntryNames(path)[k])]
        Media(c) == afc_isdir(c) = "file" /\ is_media_file(basename(c))
    IN  SelectSeq(children, Media)

SubdirsOf(path) ==
    LET children == [k \in 1..Len(EntryNames(path)) |->
                        item_path(path, EntryNames(path)[k])]
        IsDir(c) == afc_isdir(c) = "dir"
    IN  SelectSeq(children, IsDir)

FirstN(q, n) == SubSeq(q, 1, IF Len(q) < n THEN Len(q) ELSE n)

RECURSIVE ExpectedScan(_, _)
RECURSIVE ExpectedOfAll(_, _)
\* a directory's media files in listing order, then what its first
\* max_subdirs_cap subdirectories hold, one level less deep
ExpectedScan(path, depth) ==
    IF depth <= 0 \/ ~Listable(path) THEN <<>>
    ELSE MediaFilesOf(path)
            \o ExpectedOfAll(FirstN(SubdirsOf(path), max_subdirs_cap), depth - 1)

ExpectedOfAll(dirs, depth) ==
    IF dirs = <<>> THEN <<>>
    ELSE ExpectedScan(Head(dirs), depth) \o ExpectedOfAll(Tail(dirs), depth)

\* the caller's call has returned
Returned == stack = <<>> /\ calls = <<>>

----------------------------------------------------------------------------
(* The claims *)

\* C4: whatever the shape of the raw entries (plain strings or dict records
\* with a name or filename field), the list safe_listdir returns holds none
\* of '.', '..' and the empty string.
C4_NoPseudoEntries ==
    hist.listing.t = "list" =>
        \A k \in 1..Len(hist.listing.v) : hist.listing.v[k] \notin PseudoEntries

\* C8: without cancellation, scan_photos_safe returns exactly the paths of
\* the media files of the directories it visits, in listing order: a
\* directory's own media files, then the results of its subdirectories.
C8_ScanReturnsMediaInOrder ==
    (mode = "scan" /\ Returned /\ hist.nstops = 0) =>
        ret = ListV(ExpectedScan(input.path, input.max_depth))

\* the scan of the scenario tree has returned its two media files and left
\* out notes.txt
C8_Witness ==
    /\ mode = "scan" /\ Returned /\ hist.nstops = 0
    /\ fs = ScenarioTree
    /\ ret = ListV(<<"/DCIM/100APPLE/IMG_0001.JPG", "/DCIM/100APPLE/IMG_0002.MOV">>)


\* a file that the last download_file_safe wrote only in part is at local_path
PartialLeft ==
    /\ hist.wrote
    /\ input.local_path \in DOMAIN localfs
    /\ localfs[input.local_path].len < RemoteSize(input.remote_path)

\* C1: whenever download_file_safe returns because of cancellation, in any
\* of the three strategies and also after an earlier strategy raised having
\* written part of the local file, no partially written file remains at
\* local_path.
C1_NoPartialFileAfterCancel ==
    (mode = "transfer" /\ stack = <<>> /\ hist.outcome = "cancelled") => ~PartialLeft

LastAttempt == hist.attempts[Len(hist.attempts)]

\* C2: when the streamed copy has been interrupted by the stop signal it has
\* returned False, and the local file it was writing does not exist.
C2_InterruptedStreamRemovesFile ==
    ( /\ InProc("download", "post")
      /\ hist.attempts # <<>>
      /\ LastAttempt = [s |-> "stream", r |-> "false"] )
    => (~Top.success /\ Top.local_path \notin DOMAIN localfs)

\* the streamed copy was interrupted after it had written a chunk
C2_Witness ==
    /\ InProc("download", "post")
    /\ hist.attempts = <<[s |-> "stream", r |-> "false"]>>
    /\ Top.downloaded_size > 0
    /\ stopped

\* C3 (as claimed): once stop() has been signalled during a scan, no further
\* directory is listed: at most the one remote call in flight completes.
C3_OneRemoteCallAfterStop ==
    mode = "scan" => hist.callsAfterStop <= 1

\* how far a frame is from its return once the stop flag is set: every step
\* of a stopped scan or batch lowers the rank of the innermost frame or
\* returns from it
Rank ==
    [ safe_listdir |-> [poll |-> 7, exists |-> 6, isdir |-> 5, listdir |-> 4,
                        ls |-> 3, list_directory |-> 2, filter |-> 1],
      scan |-> [entry |-> 1, listed |-> 5, item_isdir |-> 4, item |-> 3,
                extend |-> 2, sub_ret |-> 2, sub |-> 1],
      download |-> [entry |-> 14, mkdir |-> 13, stream_open |-> 12,
                    stream_create |-> 11, stream_read |-> 10, stream_poll |-> 9,
                    stream_check |-> 8, bulk |-> 7, bulk_poll |-> 6, pull |-> 5,
                    pull_poll |-> 4, post |-> 1],
      batch |-> [entry |-> 3, counted |-> 2, poll |-> 1] ]

TopRank(st) == Rank[st[Len(st)].proc][st[Len(st)].pc]

\* the stack st2 is closer to the return of the caller's call than st1
Closer(st2, st1) ==
    \/ Len(st2) < Len(st1)
    \/ Len(st2) = Len(st1) /\ st2 # <<>> /\ TopRank(st2) < TopRank(st1)

\* one step of a scan or batch, as the amended C3 requires it
BoundedWorkStep ==
    mode \in {"scan", "batch"} =>
        /\ hist'.listedAfterStop + hist'.itemsAfterStop <= 1
        /\ hist'.startedAfterStop <= 1
        /\ (stopped /\ stack' # stack) => Closer(stack', stack)
        /\ stack' # <<>> =>
                stack'[Len(stack')].pc \in DOMAIN Rank[stack'[Len(stack')].proc]

\* C3 (amended): once stop() has been signalled, the scan lists at most one
\* further directory (the one whose safe_listdir had passed its poll) or
\* checks at most one further entry, never both, and the batch works on at
\* most one file; and every further step brings the scan or batch closer to
\* its return, which it reaches after a bounded number of steps.
C3_BoundedWorkAfterStop == [][BoundedWorkStep]_vars

\* a scan stopped after its safe_listdir had passed the poll has listed that
\* directory and returned
C3_Witness ==
    /\ mode = "scan" /\ Returned
    /\ hist.listedAfterStop = 1
    /\ hist.callsAfterStop = 3

\* when the last call began, a local copy of the expected size (> 0) was there
LocalCopyPresent ==
    /\ input.file_info # NoneV
    /\ input.local_path \in DOMAIN hist.preLocal
    /\ hist.preLocal[input.local_path].len = input.file_info.size
    /\ input.file_info.size > 0

SkippedUntouched ==
    /\ ret = BoolV(TRUE)
    /\ hist.outcome = "skipped"
    /\ hist.remoteReads = 0
    /\ localfs = hist.preLocal

\* C7 (as claimed): a second call with an unchanged remote file and a local
\* copy of the expected size (> 0) reports Skipped, calls no remote read,
\* open or copy primitive and leaves the local files as they were.
C7_SecondCallSkips ==
    (mode = "transfer" /\ Returned /\ LocalCopyPresent) => SkippedUntouched

\* C7 (amended): a second call with an unchanged remote file and a local
\* copy of the expected size (> 0) reports Skipped, calls no remote read,
\* open or copy primitive and leaves the local files as they were, provided
\* the stop flag is not set when the second call is entered.
C7_SecondCallSkipsUnlessStopped ==
    (mode = "transfer" /\ Returned /\ LocalCopyPresent /\ ~hist.entryStopped)
        => SkippedUntouched

\* the first call downloaded the file and set its time, the second skipped it
C7_Witness ==
    /\ mode = "transfer" /\ Returned /\ LocalCopyPresent /\ ~hist.entryStopped
    /\ hist.returned = <<BoolV(TRUE)>>
    /\ localfs[input.local_path].mtime = 7
    /\ fs[input.remote_path].fault = NoFault

\* whether every strategy raises for a remote file: the streamed copy (no
\* way to open it, the open raises or a read raises before the end), the
\* bulk read and the copy-out
ReadsToEnd(path) == (RemoteSize(path) + chunk_size - 1) \div chunk_size + 1

EveryStrategyRaises(path) ==
    /\ \/ safe_open_file(path) = ""
       \/ /\ safe_open_file(path) = "stream"
          /\ fs[path].fault.read_at \in 1..ReadsToEnd(path)
    /\ "get_file_contents" \notin afc.has \/ Raises(path, "gfc")
    /\ afc.has \cap {"pull_file", "pull"} = {} \/ Raises(path, "pull")

\* C9: without cancellation, every record of the batch is attempted once, in
\* order; failed is the number of records on which every strategy raised and
\* succeeded the number of the others.
C9_BatchCountsFailures ==
    (mode = "batch" /\ Returned /\ hist.nstops = 0) =>
        LET records == input.photos_info
            failing == {k \in 1..Len(records) : EveryStrategyRaises(records[k].path)}
        IN  /\ hist.started = [k \in 1..Len(records) |-> k]
            /\ ret = PairV(Len(records) - Cardinality(failing), Cardinality(failing))

\* the batch of the scenario: the second of three records fails, the third
\* is still transferred
C9_Witness ==
    /\ mode = "batch" /\ Returned /\ hist.nstops = 0
    /\ afc = AfcStd
    /\ input.photos_info = << InfoV("/DCIM/a.JPG", 3, 7), InfoV("/DCIM/b.MOV", 3, 7),
                              InfoV("/DCIM/c.png", BigSize, 7) >>
    /\ ret = PairV(2, 1)
    /\ "out/DCIM/c.png" \in DOMAIN localfs

StrategyOrder == <<"stream", "bulk", "pull">>

\* C10: the strategies are tried in the order streamed copy, bulk read,
\* copy-out; one is started only after every earlier one raised; and the
\* transfer fails by exhaustion only when all three raised.
C10_FallbackOnlyOnException ==
    LET a == hist.attempts
    IN  /\ Len(a) <= 3
        /\ \A k \in 1..Len(a) :
                /\ a[k].s = StrategyOrder[k]
                /\ k < Len(a) => a[k].r = "raised"
        /\ hist.outcome = "exhausted" =>
                /\ Len(a) = 3
                /\ \A k \in 1..3 : a[k].r = "raised"

\* the copy-out succeeded after the streamed copy and the bulk read raised
C10_Witness ==
    /\ hist.attempts = << [s |-> "stream", r |-> "raised"],
                          [s |-> "bulk", r |-> "raised"],
                          [s |-> "pull", r |-> "true"] >>
    /\ hist.outcome = "success"

----------------------------------------------------------------------------
(* The analysis result *)

\* the extension of a record's file name, as os.path.splitext gives it
ExtensionOf(record) == lower(splitext_ext(record.name))

\* C5: every record of a returned analysis is an image exactly when its
\* extension is one of the picture formats and a video exactly when its
\* extension is one of the video formats, and none is of kind 'unknown'
C5_KindMatchesExtension ==
    ret.t = "analysis" =>
        \A k \in 1..Len(ret.photos_info) :
            LET record == ret.photos_info[k]
            IN  /\ record.type = "image" <=>
                        ExtensionOf(record) \in media_image_extensions
                /\ record.type = "video" <=>
                        ExtensionOf(record) \in media_video_extensions
                /\ record.type # "unknown"

RECURSIVE SizeOfFirst(_, _)
\* the sizes of the first n records added up
SizeOfFirst(records, n) ==
    IF n = 0 THEN 0 ELSE SizeOfFirst(records, n - 1) + records[n].size

\* C6: a returned analysis has total_files equal to the number of its
\* records, and total_size_mb equal to the sum of their sizes over 1048576
C6_TotalsMatchRecords ==
    ret.t = "analysis" =>
        /\ ret.total_files = Len(ret.photos_info)
        /\ ret.total_size_mb.num * bytes_per_mb =
                SizeOfFirst(ret.photos_info, Len(ret.photos_info)) *
                    ret.total_size_mb.den

\* an analysis of three files of which one could not be stat'ed and one is
\* of no known kind: two records, 2 + 9 bytes
C6_Witness ==
    /\ mode = "analyze"
    /\ ret.t = "analysis"
    /\ "/DCIM/100APPLE/e.png" \notin {ret.photos_info[k].path : k \in 1..Len(ret.photos_info)}
    /\ [k \in 1..Len(ret.photos_info) |-> ret.photos_info[k].size] = <<2, 9>>
    /\ ret.total_files = 2
    /\ ret.total_size_mb = [num |-> 11, den |-> bytes_per_mb]

----------------------------------------------------------------------------
(* Discovery *)

\* a media signature: one of six extensions, one of five name prefixes, or
\* the vendor name, whatever the case of the letters
Signature(name) ==
    LET n == lower(name)
        Ends(suf) == Len(n) >= Len(suf) /\ SubSeq(n, Len(n) - Len(suf) + 1, Len(n)) = suf
        At(sub, k) == k + Len(sub) - 1 <= Len(n) /\ SubSeq(n, k, k + Len(sub) - 1) = sub
    IN  \/ Ends(".jpg") \/ Ends(".jpeg") \/ Ends(".png")
        \/ Ends(".heic") \/ Ends(".mov") \/ Ends(".mp4")
        \/ At("img_", 1) \/ At("dsc_", 1)
        \/ At("100apple", 1) \/ At("101apple", 1) \/ At("102apple", 1)
        \/ \E k \in 1..Len(n) : At("apple", k)

\* whether a candidate is to be retained, read off the remote tree
Retained(path) ==
    /\ Listable(path)
    /\ EntryNames(path) # <<>>
    /\ \/ \E k \in 1..Len(EntryNames(path)) : k <= 10 /\ Signature(EntryNames(path)[k])
       \/ Len(EntryNames(path)) > 50

\* C11: without cancellation, get_photo_directories_safe returns, in the
\* order of the candidate list, exactly the candidates whose listing is not
\* empty and has a media signature among its first 10 entries or more than
\* 50 entries; each of them could be listed.
C11_DiscoveryRetains ==
    (mode = "discover" /\ Returned /\ hist.nstops = 0) =>
        /\ ret = ListV(SelectSeq(potential_paths, Retained))
        /\ \A k \in 1..Len(ret.v) : Listable(ret.v[k])

\* the scenario: both candidates are retained, /DCIM before /PhotoData
C11_Witness ==
    /\ mode = "discover" /\ Returned /\ hist.nstops = 0
    /\ fs = DiscoverScenario
    /\ ret = ListV(<<"/DCIM", "/PhotoData">>)

----------------------------------------------------------------------------
(* The bounds of the scan *)

\* how many levels below the root of the scan a path lies
Level(path) ==
    Cardinality({k \in 1..Len(path) : SubSeq(path, k, k) = "/"})
        - Cardinality({k \in 1..Len(input.path) : SubSeq(input.path, k, k) = "/"})

\* C12: a scan with max_depth <= 0 makes no remote call and returns the
\* empty list; no directory max_depth or more levels below the root is
\* listed, and no file of such a directory is returned.
C12_DepthBounded ==
    mode = "scan" =>
        /\ \A k \in 1..Len(hist.listed) : Level(hist.listed[k]) < input.max_depth
        /\ Returned =>
                \A k \in 1..Len(ret.v) : Level(dirname(ret.v[k])) < input.max_depth
        /\ input.max_depth <= 0 =>
                /\ hist.remoteCalls = 0
                /\ Returned => ret = ListV(<<>>)

\* a scan to depth 3 has listed /DCIM/sub/inner, two levels down, has
\* returned its d.cr2 and has left /DCIM/sub/inner/deep alone
C12_Witness ==
    /\ mode = "scan" /\ Returned /\ input.max_depth = 3
    /\ "/DCIM/sub/inner/deep" \in DOMAIN fs
    /\ \E k \in 1..Len(hist.listed) : hist.listed[k] = "/DCIM/sub/inner"
    /\ \E k \in 1..Len(ret.v) : ret.v[k] = "/DCIM/sub/inner/d.cr2"
    /\ \A k \in 1..Len(ret.v) : ret.v[k] # "/DCIM/sub/inner/deep/e.gif"

\* the directories enumerated by the scan
ListedDirs == {hist.listed[k] : k \in 1..Len(hist.listed)}

\* C13: every directory the scan descends into is one of the first 20
\* subdirectories, in listing order, of a directory it visited; a later
\* subdirectory is never scanned, and without cancellation the first 20 are.
C13_FanOutCapped ==
    mode = "scan" =>
        /\ \A d \in ListedDirs \ {input.path} :
                LET siblings == SubdirsOf(dirname(d))
                IN  /\ dirname(d) \in ListedDirs
                    /\ \E j \in 1..Len(siblings) : j <= 20 /\ siblings[j] = d
        /\ (Returned /\ hist.nstops = 0) =>
                \A d \in ListedDirs :
                    Level(d) + 1 < input.max_depth =>
                        LET subdirs == SubdirsOf(d)
                        IN  \A j \in 1..Len(subdirs) :
                                (j <= 20 /\ Listable(subdirs[j]))
                                    => subdirs[j] \in ListedDirs

\* of the 22 subdirectories of /DCIM the scan has visited d01 to d20 and
\* returned their pictures after a.JPG; d21 and d22 were left out
C13_Witness ==
    /\ mode = "scan" /\ Returned /\ hist.nstops = 0
    /\ fs = WideTree
    /\ Len(SubdirsOf("/DCIM")) = 22
    /\ ListedDirs = {"/DCIM"} \cup {item_path("/DCIM", WideNames[k]) : k \in 1..20}
    /\ Len(ret.v) = 21
    /\ ret.v[21] = "/DCIM/d20/p.jpg"

----------------------------------------------------------------------------
(* Partial availability *)

\* one of the three read primitives is there and does not raise for the
\* file: opening it and reading it to its end, the bulk read, or the copy-out
SomePrimitiveWorks(path) ==
    \/ /\ afc.has \cap {"open", "file_open"} # {}
       /\ ~Raises(path, "open")
       /\ fs[path].fault.read_at \notin 1..ReadsToEnd(path)
    \/ "get_file_contents" \in afc.has /\ ~Raises(path, "gfc")
    \/ afc.has \cap {"pull_file", "pull"} # {} /\ ~Raises(path, "pull")

\* the call reported success and the local file is as long as the remote one
SucceededInFull ==
    /\ ret = BoolV(TRUE)
    /\ input.local_path \in DOMAIN localfs
    /\ localfs[input.local_path].len = RemoteSize(input.remote_path)

OperationInFlight ==
    \E k \in 1..Len(stack) : stack[k].proc \in {"scan", "download", "batch"}

\* the places where the code calls reset(): the start of analyze_photos_safe,
\* the two calls of the interactive loop, and the caller between operations
AtResetSite ==
    \/ stack = <<>>
    \/ InProc("analyze", "entry")
    \/ InProc("interactive", "output_dir")
    \/ InProc("interactive", "downloaded")

C15_TokenStep ==
    /\ hist'.nstops > hist.nstops =>
            /\ stopped'
            /\ stopped => UNCHANGED << stopped, stack, ret, progress, localfs,
                                       localdirs, session >>
    /\ (stopped /\ ~stopped') => (AtResetSite /\ ~OperationInFlight)
    /\ (stopped /\ OperationInFlight) => stopped'

\* C15: a stop signal sets the flag and a second one changes nothing; the
\* flag is cleared only by reset(), which no step takes while a scan, a
\* transfer or a batch is between its start and its return, so that the
\* flag, once set during such an operation, is set at each of its later
\* polls.
C15_TokenHeldUntilReset == [][C15_TokenStep]_vars

\* two stop signals during one batch, the flag still set inside a transfer
C15_Witness ==
    /\ mode = "batch"
    /\ hist.nstops = 2
    /\ stopped
    /\ InProc("download", "entry")

C16_ReturnStep ==
    ( /\ mode = "analyze"
      /\ InProc("analyze", "final")
      /\ stopped
      /\ Top.all_photos # <<>>
      /\ Len(stack') < Len(stack) )
    => /\ ret' # NoneV
       /\ ret'.photos_info = Top.all_photos

\* C16: when analyze_photos_safe returns with the stop flag set after it has
\* collected file records, it returns those records.
C16_CancelledAnalysisReturnsRecords == [][C16_ReturnStep]_vars

RECURSIVE PowersSum(_, _)
\* base^0 + base^1 + ... + base^(n - 1)
PowersSum(base, n) == IF n <= 0 THEN 0 ELSE 1 + base * PowersSum(base, n - 1)

\* C17: on every tree, those with a directory that lists itself or an
\* ancestor included, scan_photos_safe returns, and it never enumerates more
\* than 20^0 + ... + 20^(max_depth - 1) directories.
C17_ScanTerminatesWithinBound ==
    /\ <>(stack = <<>>)
    /\ [](Len(hist.listed) <= PowersSum(max_subdirs_cap, input.max_depth))

\* the scan of the cyclic tree has returned after going through the cycle
\* down to the depth limit
C17_Witness ==
    /\ fs = CyclicTree
    /\ input.max_depth = default_max_depth
    /\ stack = <<>>
    /\ hist.nstops = 0
    /\ hist.listed = << "/DCIM", "/DCIM/self", "/DCIM/self/self", "/DCIM/self/sub",
                        "/DCIM/sub", "/DCIM/sub/up" >>

\* the enumeration primitives in the order of the code
primitives == << "listdir", "ls", "list_directory" >>

RECURSIVE TriedFrom(_)
\* the primitives that are to be called from the k-th on: each one the
\* service has, up to and including the first that leaves a result
TriedFrom(k) ==
    IF k > Len(primitives) THEN <<>>
    ELSE IF primitives[k] \notin afc.has THEN TriedFrom(k + 1)
    ELSE IF Enumerate(primitives[k], input.path) = NoneV
         THEN <<primitives[k]>> \o TriedFrom(k + 1)
         ELSE <<primitives[k]>>

\* what the last primitive to be called leaves
FirstResult ==
    IF TriedFrom(1) = <<>> THEN NoneV
    ELSE Enumerate(TriedFrom(1)[Len(TriedFrom(1))], input.path)

\* every primitive the service has has been called
Exhausted ==
    \A k \in 1..Len(primitives) :
        primitives[k] \in afc.has => \E j \in 1..Len(hist.tried) : hist.tried[j] = primitives[k]

\* safe_listdir has returned for a directory that exists, without a stop signal
ListedExisting ==
    /\ mode = "list" /\ Returned /\ hist.nstops = 0
    /\ afc_exists(input.path) = "true"
    /\ afc_isdir(input.path) = "dir"

\* C18 (as claimed): for an existing directory the primitives are called in
\* the order listdir, ls, list_directory, the next one only when the one
\* before is absent, raised or gave no result; the first result is returned
\* normalised, and None is returned only when every primitive the service has
\* has been called.
C18_FirstListingOrExhausted ==
    ListedExisting =>
        /\ hist.tried = TriedFrom(1)
        /\ FirstResult.t = "list" => ret = ListV(filtered_items(FirstResult.v))
        /\ ret = NoneV => Exhausted

\* C18 (amended): ... and None is returned only when every primitive the
\* service has has been called or the first result could not be normalised.
C18_FirstListingOrExhaustedOrMalformed ==
    ListedExisting =>
        /\ hist.tried = TriedFrom(1)
        /\ FirstResult.t = "list" => ret = ListV(filtered_items(FirstResult.v))
        /\ ret = NoneV => (Exhausted \/ FirstResult = ScalarV)

\* listdir raised, ls returned a dict with 'entries' and list_directory was
\* not called
C18_Witness ==
    /\ ListedExisting
    /\ afc.has = {"listdir", "ls", "list_directory"}
    /\ afc.listdir = "raise" /\ afc.ls = "entries"
    /\ hist.tried = << "listdir", "ls" >>
    /\ ret = ListV(<< "x.jpg", "y.mov" >>)

\* a check of safe_listdir fails: exists raises, isdir raises, or the first
\* result cannot be iterated over
CheckFails(path) ==
    \/ afc_exists(path) = "raise"
    \/ afc_exists(path) = "true" /\ afc_isdir(path) = "raise"
    \/ afc_exists(path) = "true" /\ afc_isdir(path) = "dir" /\ FirstResult = ScalarV

\* C19: safe_listdir returns None or a list and never raises; when the
\* exists check, the isdir check or the normalisation fails it returns None,
\* and a scan returns nothing from a directory whose check fails, as from a
\* directory that is not there.
C19_FailuresBecomeNone ==
    /\ (mode = "list" /\ Returned) =>
            /\ ret.t \in {"none", "list"}
            /\ (hist.nstops = 0 /\ CheckFails(input.path)) => ret = NoneV
    /\ (mode = "scan" /\ Returned) =>
            /\ ret.t = "list"
            /\ \A k \in 1..Len(ret.v) : afc_exists(dirname(ret.v[k])) = "true"

\* the isdir check of /DCIM raised and safe_listdir returned None
C19_Witness ==
    /\ mode = "list" /\ Returned /\ hist.nstops = 0
    /\ afc_exists(input.path) = "true"
    /\ afc_isdir(input.path) = "raise"
    /\ hist.remoteCalls = 2
    /\ ret = NoneV

\* the elements of a sequence
Elems(q) == {q[k] : k \in 1..Len(q)}

\* the entries of directory d that come after its k-th entry have been
\* processed: the media files are in the result and the subdirectories
\* within the limits have been enumerated
LaterSiblingsProcessed(d, k) ==
    LET names == EntryNames(d)
        descended == Elems(FirstN(SubdirsOf(d), max_subdirs_cap))
    IN  \A j \in (k + 1)..Len(names) :
            LET sibling == item_path(d, names[j])
            IN  /\ (afc_isdir(sibling) = "file" /\ is_media_file(names[j]))
                        => sibling \in Elems(ret.v)
                /\ ( /\ sibling \in descended
                     /\ Listable(sibling)
                     /\ Level(d) + 1 < input.max_depth )
                        => sibling \in ListedDirs

\* C20: without cancellation, an entry whose directory check raises is left
\* out of the result, every entry after it in the same listing is still
\* processed, and the scan returns a list.
C20_FailedEntryOnlySkipped ==
    (mode = "scan" /\ Returned /\ hist.nstops = 0) =>
        /\ ret.t = "list"
        /\ \A d \in ListedDirs :
                LET names == EntryNames(d)
                IN  \A k \in 1..Len(names) :
                        afc_isdir(item_path(d, names[k])) = "raise" =>
                            /\ item_path(d, names[k]) \notin Elems(ret.v)
                            /\ LaterSiblingsProcessed(d, k)

\* /DCIM lists bad.png, whose check raises, then sub: what is below sub is
\* returned
C20_Witness ==
    /\ mode = "scan" /\ Returned /\ hist.nstops = 0
    /\ input.max_depth = 2
    /\ EntryNames(input.path) = << "bad.png", "sub" >>
    /\ afc_isdir("/DCIM/bad.png") = "raise"
    /\ hist.listed = << "/DCIM", "/DCIM/sub" >>
    /\ ret = ListV(<< "/DCIM/sub/c.mov" >>)

\* p is an initial part of q
IsPrefix(p, q) == Len(p) <= Len(q) /\ SubSeq(q, 1, Len(p)) = p

\* C21: whenever it is cancelled, scan_photos_safe returns a list, and that
\* list is an initial part of the list the scan of the same tree returns
\* without cancellation.
C21_CancelledScanReturnsPrefix ==
    (mode = "scan" /\ Returned) =>
        /\ ret.t = "list"
        /\ IsPrefix(ret.v, ExpectedScan(input.path, input.max_depth))

\* a scan stopped below /DCIM/sub has returned the picture of /DCIM and the
\* first file of /DCIM/sub, and not what lies deeper
C21_Witness ==
    /\ mode = "scan" /\ Returned
    /\ hist.nstops > 0
    /\ input.max_depth = default_max_depth
    /\ ret = ListV(<< "/DCIM/a.JPG", "/DCIM/sub/c.mov" >>)
    /\ Len(ExpectedScan(input.path, input.max_depth)) > 2

\* the transfers that have begun and not yet returned
InFlight == {k \in 1..Len(stack) : stack[k].proc = "download"}

\* C22: the records of a batch are attempted in the order of the list, one
\* after the other and each at most once: the attempts are the records 1, 2,
\* ..., no transfer begins while another has not returned, and the record
\* being transferred is the last one begun.
C22_SequentialOncePerRecord ==
    mode = "batch" =>
        /\ Len(hist.started) <= Len(input.photos_info)
        /\ hist.started = [k \in 1..Len(hist.started) |-> k]
        /\ Cardinality(InFlight) <= 1
        /\ InFlight # {} =>
                /\ stack[1].proc = "batch"
                /\ stack[1].i = hist.started[Len(hist.started)]
                /\ stack[Len(stack)].remote_path = input.photos_info[stack[1].i].path

\* the third record is being transferred after the second one failed
C22_Witness ==
    /\ mode = "batch"
    /\ hist.started = << 1, 2, 3 >>
    /\ InFlight # {}
    /\ stack[1].failed_count = 1
    /\ stack[1].downloaded_count = 1
    /\ input.photos_info[2].path = "/DCIM/b.MOV"

\* the records whose transfer has begun and has returned, its outcome
\* counted (the call and the increment are one statement of the loop)
Completed ==
    IF InFlight # {} \/ InProc("batch", "counted")
    THEN Len(hist.started) - 1
    ELSE Len(hist.started)

\* C23: throughout a batch, downloaded_count + failed_count is the number of
\* records whose transfer has begun and returned, and is at most the number
\* of records; the counts returned add up to the number of records begun,
\* which is all of them without cancellation, and fewer only after a stop
\* signal, the records not begun being counted nowhere.
C23_CountsMatchCompleted ==
    mode = "batch" =>
        /\ stack # <<>> =>
                LET counted == stack[1].downloaded_count + stack[1].failed_count
                IN  /\ counted = Completed
                    /\ counted = stack[1].i - 1
                    /\ counted <= Len(input.photos_info)
        /\ Returned =>
                /\ ret.downloaded + ret.failed = Len(hist.started)
                /\ Len(hist.started) <= Len(input.photos_info)
                /\ hist.nstops = 0 => Len(hist.started) = Len(input.photos_info)

\* a batch of three records was stopped during the first transfer, which
\* still succeeded: one record is counted, the two others are not
C23_Witness ==
    /\ mode = "batch" /\ Returned
    /\ hist.nstops > 0
    /\ Len(input.photos_info) = 3
    /\ hist.started = << 1 >>
    /\ ret = PairV(1, 0)

\* the last call of download_file_safe ended with a strategy that wrote the
\* local file and reported success, for a remote file that is not of the
\* size file_info gives
WroteOtherSize ==
    /\ mode = "transfer" /\ stack = <<>>
    /\ hist.wrote
    /\ hist.attempts # <<>>
    /\ LastAttempt.r = "true"
    /\ input.file_info # NoneV
    /\ input.file_info.size > 0
    /\ RemoteSize(input.remote_path) # input.file_info.size

\* C24: when a strategy has written the local file and its size is not the
\* expected one, download_file_safe still returns True and the file stays
\* as written.
C24_SizeMismatchStillSucceeds ==
    WroteOtherSize =>
        /\ ret = BoolV(TRUE)
        /\ hist.outcome = "success"
        /\ input.local_path \in DOMAIN localfs
        /\ localfs[input.local_path].len = RemoteSize(input.remote_path)
        /\ localfs[input.local_path].len # input.file_info.size

\* a remote file of 3 bytes announced as a two-chunk file has been
\* transferred by the streamed copy
C24_Witness ==
    /\ WroteOtherSize
    /\ hist.nstops = 0
    /\ RemoteSize(input.remote_path) = 3
    /\ input.file_info.size = BigSize
    /\ hist.attempts = << [s |-> "stream", r |-> "true"] >>
    /\ ret = BoolV(TRUE)
    /\ localfs[input.local_path].len = 3

\* a call of download_file_safe has returned
TransferReturned == mode = "transfer" /\ stack = <<>>

\* C25 (as claimed): the call skips the transfer exactly when a local file
\* was at local_path, file_info was given and the local size equalled
\* file_info.size > 0; in every other case a strategy is attempted.
C25_SkipsExactlyOnSameSize ==
    TransferReturned =>
        /\ hist.outcome = "skipped" <=> LocalCopyPresent
        /\ ~LocalCopyPresent => hist.attempts # <<>>

\* C25 (amended): ... for a call entered with the stop flag clear.
C25_SkipsExactlyOnSameSizeUnlessStopped ==
    (TransferReturned /\ ~hist.entryStopped) =>
        /\ hist.outcome = "skipped" <=> LocalCopyPresent
        /\ hist.outcome = "skipped" => (ret = BoolV(TRUE) /\ hist.attempts = <<>>)
        /\ ~LocalCopyPresent => hist.attempts # <<>>

\* a local file of 1 byte was there, file_info gave 3 bytes: the streamed
\* copy was attempted
C25_Witness ==
    /\ TransferReturned /\ ~hist.entryStopped
    /\ input.file_info # NoneV
    /\ input.file_info.size = 3
    /\ input.local_path \in DOMAIN hist.preLocal
    /\ hist.preLocal[input.local_path].len = 1
    /\ hist.attempts # <<>>
    /\ hist.attempts[1].s = "stream"
    /\ hist.outcome # "skipped"

\* a step of download_file_safe from its entry with the stop flag set
EntryStep ==
    /\ InProc("download", "entry")
    /\ stopped
    /\ stack' # stack

C26_EntryStep ==
    EntryStep =>
        /\ stack' = SubSeq(stack, 1, Len(stack) - 1)
        /\ ret' = BoolV(FALSE)
        /\ hist'.remoteCalls = hist.remoteCalls
        /\ UNCHANGED << fs, localfs, localdirs >>

\* C26: download_file_safe entered with the stop flag set returns False at
\* once: it calls no remote primitive, creates no local directory and leaves
\* every local file as it was.
C26_StoppedEntryHasNoEffect == [][C26_EntryStep]_vars

\* the call was entered with the flag set and a local file of 1 byte in
\* place: it returned False, the file is still there and no directory was made
C26_Witness ==
    /\ mode = "transfer" /\ stack = <<>>
    /\ hist.entryStopped
    /\ hist.returned = <<>>
    /\ ret = BoolV(FALSE)
    /\ hist.remoteCalls = 0
    /\ localdirs = {}
    /\ input.local_path \in DOMAIN localfs
    /\ localfs[input.local_path] = [len |-> 1, mtime |-> 1]

\* C27: in the interactive loop, when the menu is reached with the stop flag
\* clear, so that option 1, 2 or 3 may be processed, the analysis is not
\* None, and no option fails for want of it.
C27_AnalysisPresentAtMenu ==
    mode = "interactive" =>
        /\ (InProc("interactive", "menu") /\ ~stopped) => Top.analysis # NoneV
        /\ ret # RaisedV("TypeError")

============================================================================
